---- MODULE Spec2Model ----
(***************************************************************************)
(* Row-level detection and correction pipeline of DataCleaningUsingLLMs.   *)
(*                                                                         *)
(*   detector_fullMD.py : create_resilient_session, detect_errors_in_row,  *)
(*                        validate_field_length, validate_date_field,      *)
(*                        analyze_csv, save_results                        *)
(*   correct_errors.py  : get_facility_examples, process_single_row,       *)
(*                        correct_errors                                   *)
(*                                                                         *)
(* Cell values are sequences of one-character strings, so that len(),      *)
(* digit extraction and date parsing are computed and not assumed.  A      *)
(* missing cell (pandas NaN) is the value NaN.  The language model is the  *)
(* environment: each reply is drawn from a pool that covers the three      *)
(* tiers (parsed object, unparseable text, transport exception) and, for   *)
(* parsed objects, absent keys and values of the wrong JSON type.          *)
(***************************************************************************)
EXTENDS Integers, Sequences, FiniteSets, TLC

\* ------------------------------------------------------------------ bounds

\* Largest number of rows of the input table.
MaxRows == 2

\* datetime.now().year at the time of the run.
CurrentYear == 2026

\* ------------------------------------------------------------ cell values

\* pandas' float NaN: what read_csv gives for an empty cell.
NaN == <<"<NaN>">>

isna(v) == v = NaN

\* The float 0.0: what read_csv gives for the cell "0.0" of a column whose
\* cells are all numeric or empty.
ZeroFloat == <<"<0.0>">>

\* str(value): a string is itself, NaN prints as "nan", 0.0 as "0.0".
Str(v) ==
    IF isna(v) THEN <<"n", "a", "n">>
    ELSE IF v = ZeroFloat THEN <<"0", ".", "0">>
    ELSE v

\* bool(value) as used by "if value": NaN is a non-zero float, so it is true;
\* the empty string and the float 0.0 are false.
Truthy(v) == v # <<>> /\ v # ZeroFloat

Digits == {"0", "1", "2", "3", "4", "5", "6", "7", "8", "9"}

DigitVal(c) ==
    CASE c = "0" -> 0 [] c = "1" -> 1 [] c = "2" -> 2 [] c = "3" -> 3
      [] c = "4" -> 4 [] c = "5" -> 5 [] c = "6" -> 6 [] c = "7" -> 7
      [] c = "8" -> 8 [] c = "9" -> 9

AllDigits(s) == \A i \in 1..Len(s) : s[i] \in Digits

RECURSIVE NumVal(_)
NumVal(s) == IF s = <<>> THEN 0
             ELSE 10 * NumVal(SubSeq(s, 1, Len(s) - 1)) + DigitVal(s[Len(s)])

\* The digits of a value, in order (what a phone number "is").
DigitsOf(s) == SelectSeq(s, LAMBDA c : c \in Digits)

\* ---------------------------------------------------------------- columns

FacilityColumns ==
    <<"Facility Name", "Address", "City/Town", "State",
      "ZIP Code", "County/Parish", "Telephone Number">>

Columns ==
    {"Facility ID", "Facility Name", "Address", "City/Town", "State",
     "ZIP Code", "County/Parish", "Telephone Number", "Condition",
     "Measure ID", "Measure Name", "Score", "Sample", "Footnote",
     "Start Date", "End Date"}

\* field_lengths of analyze_csv, in the dict's insertion order.
field_lengths ==
    << <<"Facility ID", 6>>, <<"Facility Name", 72>>, <<"Address", 51>>,
       <<"City/Town", 20>>, <<"State", 2>>, <<"County/Parish", 25>>,
       <<"Telephone Number", 14>>, <<"Condition", 35>>, <<"Measure ID", 19>>,
       <<"Measure Name", 168>>, <<"Score", 13>>, <<"Sample", 13>>,
       <<"Footnote", 9>> >>

\* ------------------------------------------------------------ JSON values

\* A key that the JSON object does not have.
Absent == "<absent>"
\* A JSON value that is not a string (null, a number).
JNull == "<null>"

\* A JSON/Python value where a list is expected: kind "list" carries items;
\* "null" is None, "str" a non-empty string, "absent" a missing key.
ListOf(items) == [kind |-> "list", items |-> items]
NotAList(kind) == [kind |-> kind, items |-> <<>>]

ErrorEntry(f, t, d) == [field |-> f, error_type |-> t, description |-> d]

\* ------------------------------------------------- deterministic checks

\* validate_field_length: None is the empty sequence, an error a 1-tuple.
validate_field_length(value, max_length, field_name) ==
    IF Truthy(value) /\ Len(Str(value)) > max_length
    THEN << ErrorEntry(field_name, "length_violation", "exceeds maximum length") >>
    ELSE <<>>

\* pd.to_datetime on a string, for the layouts the correction prompt names:
\* MM/DD/YYYY (DD/MM/YYYY when the first number exceeds 12), YYYY/MM/DD,
\* YYYY-MM-DD, DD-MM-YYYY.  Anything else raises.  A year outside the
\* Timestamp range raises OutOfBoundsDatetime.  Days are accepted up to 31
\* in every month; NoDate stands for the exception.
TimestampMinYear == 1678
TimestampMaxYear == 2261

DateRec(ok, y, m, d) == [ok |-> ok, y |-> y, m |-> m, d |-> d]
NoDate == DateRec(FALSE, 0, 0, 0)

CalendarDate(y, m, d) ==
    IF m \in 1..12 /\ d \in 1..31 THEN DateRec(TRUE, y, m, d) ELSE NoDate

\* The date the text denotes, before it is stored as a Timestamp.
parse_date(v) ==
    LET s == Str(v)
        num(a, b) == NumVal(SubSeq(s, a, b))
        dig(a, b) == AllDigits(SubSeq(s, a, b))
    IN  IF Len(s) # 10 THEN NoDate
        ELSE IF s[3] = "/" /\ s[6] = "/" /\ dig(1, 2) /\ dig(4, 5) /\ dig(7, 10)
             THEN IF num(1, 2) > 12
                  THEN CalendarDate(num(7, 10), num(4, 5), num(1, 2))
                  ELSE CalendarDate(num(7, 10), num(1, 2), num(4, 5))
        ELSE IF s[5] \in {"/", "-"} /\ s[8] = s[5] /\ dig(1, 4) /\ dig(6, 7) /\ dig(9, 10)
             THEN CalendarDate(num(1, 4), num(6, 7), num(9, 10))
        ELSE IF s[3] = "-" /\ s[6] = "-" /\ dig(1, 2) /\ dig(4, 5) /\ dig(7, 10)
             THEN CalendarDate(num(7, 10), num(4, 5), num(1, 2))
        ELSE NoDate

to_datetime(v) ==
    LET date == parse_date(v)
    IN  IF date.ok /\ date.y >= TimestampMinYear /\ date.y <= TimestampMaxYear
        THEN date
        ELSE NoDate

validate_date_field(value, field_name) ==
    IF isna(value) THEN <<>>
    ELSE LET date == to_datetime(value)
         IN  IF ~date.ok
             THEN << ErrorEntry(field_name, "invalid_date_format", "Invalid date format") >>
             ELSE IF date.y < 1900 \/ date.y > CurrentYear + 1
             THEN << ErrorEntry(field_name, "invalid_date", "outside acceptable range") >>
             ELSE <<>>

RECURSIVE LengthErrors(_, _)
LengthErrors(row, i) ==
    IF i > Len(field_lengths) THEN <<>>
    ELSE validate_field_length(row[field_lengths[i][1]], field_lengths[i][2],
                               field_lengths[i][1])
         \o LengthErrors(row, i + 1)

\* additional_errors of analyze_csv: the length loop, then the date loop.
additional_errors(row) ==
    LengthErrors(row, 1)
    \o validate_date_field(row["Start Date"], "Start Date")
    \o validate_date_field(row["End Date"], "End Date")

\* ------------------------------------------------------------- input rows

Chars_ABC123 == <<"A", "B", "C", "1", "2", "3">>
Chars_XYZ789 == <<"X", "Y", "Z", "7", "8", "9">>
Chars_ABC1234 == <<"A", "B", "C", "1", "2", "3", "4">>
Chars_Zip == <<"7", "8", "7", "0", "1">>
Chars_ZipX == <<"1", "2", "3", "4", "5", "6", "7", "8", "9", "X">>
Chars_Phone == <<"(", "6", "4", "0", ")", " ", "5", "5", "8", "-", "7", "2", "3", "0">>
Chars_PhoneRaw == <<"6", "4", "0", "5", "5", "8", "7", "2", "3", "0">>
Chars_PhoneOther == <<"(", "5", "5", "5", ")", " ", "0", "0", "0", "-", "0", "0", "0", "0">>
Chars_DateMDY == <<"0", "1", "/", "1", "5", "/", "2", "0", "2", "3">>
Chars_DateYMD == <<"2", "0", "2", "3", "/", "0", "1", "/", "1", "5">>
Chars_DateOther == <<"0", "2", "/", "1", "5", "/", "2", "0", "2", "3">>
Chars_DateOld == <<"0", "1", "/", "1", "5", "/", "1", "8", "5", "0">>
Chars_DateJunk == <<"s", "o", "o", "n">>
Chars_DateEnd == <<"1", "2", "/", "3", "1", "/", "2", "0", "2", "3">>

\* A row that passes every deterministic check.
RowClean ==
    [c \in Columns |->
        CASE c = "Facility ID" -> Chars_ABC123
          [] c = "Facility Name" -> <<"H", "o", "s", "p">>
          [] c = "Address" -> <<"1", " ", "E", "l", "m">>
          [] c = "City/Town" -> <<"A", "u", "s", "t", "i", "n">>
          [] c = "State" -> <<"T", "X">>
          [] c = "ZIP Code" -> Chars_Zip
          [] c = "County/Parish" -> <<"H", "a", "y", "s">>
          [] c = "Telephone Number" -> Chars_Phone
          [] c = "Condition" -> <<"F", "l", "u">>
          [] c = "Measure ID" -> <<"M", "1">>
          [] c = "Measure Name" -> <<"R", "a", "t", "e">>
          [] c = "Score" -> <<"9", "5">>
          [] c = "Sample" -> <<"1", "0">>
          [] c = "Footnote" -> NaN
          [] c = "Start Date" -> Chars_DateMDY
          [] c = "End Date" -> Chars_DateEnd]

\* Facility ID one character too long: one length_violation.
RowLongId == [RowClean EXCEPT !["Facility ID"] = Chars_ABC1234]
\* The ZIP of the end-to-end example: 10 characters, one of them a letter.
RowZipX == [RowClean EXCEPT !["ZIP Code"] = Chars_ZipX]
\* State too long and both dates bad: three deterministic errors.
RowBadDates == [RowClean EXCEPT !["State"] = <<"T", "e", "x">>,
                                !["Start Date"] = Chars_DateJunk,
                                !["End Date"] = Chars_DateOld]
\* Unformatted phone and a YYYY/MM/DD date: what correction is to reformat.
RowRaw == [RowClean EXCEPT !["Telephone Number"] = Chars_PhoneRaw,
                           !["Start Date"] = Chars_DateYMD]
\* Same facility, phone cell empty.
RowBlankPhone == [RowClean EXCEPT !["Telephone Number"] = NaN]
\* Another facility.
RowOther == [RowClean EXCEPT !["Facility ID"] = Chars_XYZ789,
                             !["Facility Name"] = <<"C", "l", "i", "n">>]
\* Facility ID cell empty.
RowNoId == [RowClean EXCEPT !["Facility ID"] = NaN]

RECURSIVE SeqsUpTo(_, _)
SeqsUpTo(S, n) ==
    IF n = 0 THEN {<<>>}
    ELSE LET shorter == SeqsUpTo(S, n - 1)
         IN  shorter \cup {Append(s, x) : s \in {t \in shorter : Len(t) = n - 1}, x \in S}

\* ------------------------------------------------- detect_errors_in_row

\* The outcome of one request: the tier, and for tier "Parsed" the object
\* json.loads returned (it is an object: the text parsed ends with "}").
ParsedReply(ed, errs, reasoning) ==
    [tier |-> "Parsed", error_detection |-> ed, errors |-> errs,
     reasoning |-> reasoning, text |-> ""]
ParseFailedReply(text) ==
    [tier |-> "ParseFailed", error_detection |-> Absent, errors |-> NotAList("absent"),
     reasoning |-> Absent, text |-> text]
TransportFailedReply(msg) ==
    [tier |-> "TransportFailed", error_detection |-> Absent, errors |-> NotAList("absent"),
     reasoning |-> Absent, text |-> msg]

DetectionResult(n, ed, errs, reasoning) ==
    [row_number |-> n, error_detection |-> ed, errors |-> errs, reasoning |-> reasoning]

\* dict.get(key, default): the default only when the key is absent.
Get(value, default) == IF value = Absent THEN default ELSE value

\* A fallback that reports a transport failure as a parse failure.
detect_errors_in_row_one_tier(row_number, reply) ==
    IF reply.tier = "Parsed"
    THEN DetectionResult(row_number,
            Get(reply.error_detection, "error"),
            IF reply.errors.kind = "absent" THEN ListOf(<<>>) ELSE reply.errors,
            Get(reply.reasoning, "No specific reasoning provided"))
    ELSE DetectionResult(row_number, "error",
            ListOf(<< ErrorEntry("general", "parse_error",
                                 "Failed to parse model response") >>),
            reply.text)

detect_errors_in_row(row_number, reply) ==
    CASE reply.tier = "Parsed" ->
            DetectionResult(row_number,
                Get(reply.error_detection, "error"),
                IF reply.errors.kind = "absent" THEN ListOf(<<>>) ELSE reply.errors,
                Get(reply.reasoning, "No specific reasoning provided"))
      [] reply.tier = "ParseFailed" ->
            DetectionResult(row_number, "error",
                ListOf(<< ErrorEntry("general", "parse_error",
                                     "Failed to parse model response") >>),
                reply.text)
      [] reply.tier = "TransportFailed" ->
            DetectionResult(row_number, "error",
                ListOf(<< ErrorEntry("general", "processing_error", reply.text) >>),
                "Error processing row: " \o reply.text)

\* ------------------------------------------------------ the merge step

\* A merge that keeps only the deterministic findings when there are any.
merge_results_overwrite(phi2_result, additional) ==
    IF additional # <<>>
    THEN [phi2_result EXCEPT !.error_detection = "error",
                             !.errors = ListOf(additional)]
    ELSE phi2_result

\* Lines 221-224: the verdict is forced and the list extended only when the
\* deterministic checks found something.
merge_results(phi2_result, additional) ==
    IF additional # <<>>
    THEN [phi2_result EXCEPT !.error_detection = "error",
                             !.errors = ListOf(@.items \o additional)]
    ELSE phi2_result

\* list.extend on a value that is no list raises AttributeError (line 224);
\* len() of None raises TypeError in the progress message (line 231).
merge_raises(phi2_result, additional) ==
    \/ additional # <<>> /\ phi2_result.errors.kind # "list"
    \/ /\ merge_results(phi2_result, additional).error_detection = "error"
       /\ phi2_result.errors.kind = "null"

\* ------------------------------------------------------- save_results

RECURSIVE FlattenErrors(_, _)
\* The entries save_results counts: those of the results whose verdict is
\* "error", in order.
FlattenErrors(results, i) ==
    IF i > Len(results) THEN <<>>
    ELSE (IF results[i].error_detection = "error" THEN results[i].errors.items ELSE <<>>)
         \o FlattenErrors(results, i + 1)

CountWhere(seq, P(_)) == Cardinality({i \in 1..Len(seq) : P(seq[i])})

\* Iterating a string yields characters, and error.get on a character raises.
save_raises(results) ==
    \E i \in 1..Len(results) :
        results[i].error_detection = "error" /\ results[i].errors.kind = "str"

NoOutput == [written |-> FALSE]

\* The document save_results writes.  error_rate is error_rows / total_rows
\* * 100, kept exact as the pair (error_rows * 100, total_rows).
save_results(results) ==
    LET total_rows == Len(results)
        error_rows == CountWhere(results, LAMBDA r : r.error_detection = "error")
        all == FlattenErrors(results, 1)
        types == {all[i].error_type : i \in 1..Len(all)}
        fields == {all[i].field : i \in 1..Len(all)}
    IN  [written |-> TRUE,
         summary |->
            [total_rows_analyzed |-> total_rows,
             rows_with_errors |-> error_rows,
             error_rate |-> [num |-> error_rows * 100, den |-> total_rows],
             error_types_frequency |->
                [t \in types |-> CountWhere(all, LAMBDA e : e.error_type = t)],
             errors_by_field |->
                [f \in fields |-> CountWhere(all, LAMBDA e : e.field = f)]],
         detailed_results |-> results]

\* ------------------------------------------------------ detection replies

E_State == ErrorEntry("State", "Invalid Format", "not a state code")
E_Zip == ErrorEntry("ZIP Code", "invalid_format", "ZIP must be 5 or 9 digits")
E_Phone == ErrorEntry("Telephone Number", "invalid format", "phone not formatted")
E_NoType == [field |-> "State", error_type |-> Absent, description |-> "bad"]

\* A parsed object that also has the key row_number, which lines 104-110
\* never read.
NumberedReply(n, ed, errs, reasoning) ==
    [tier |-> "Parsed", error_detection |-> ed, errors |-> errs,
     reasoning |-> reasoning, text |-> "", row_number |-> n]

\* What the model endpoint can answer to a detection request.
DetectReplies ==
    { ParsedReply("no error", ListOf(<<>>), "No errors found"),
      ParsedReply("error", ListOf(<<E_State>>), "bad state"),
      ParsedReply("error", ListOf(<<E_Zip, E_Phone>>), "bad zip and phone"),
      ParsedReply("no error", ListOf(<<E_State>>), "looks fine"),
      ParsedReply("error", ListOf(<<>>), "something is off"),
      ParsedReply(Absent, NotAList("absent"), Absent),
      ParsedReply("unknown", ListOf(<<>>), "not sure"),
      ParsedReply("error", NotAList("null"), "see above"),
      ParsedReply("no error", NotAList("null"), "fine"),
      ParsedReply("error", NotAList("str"), "errors as text"),
      ParsedReply("error", ListOf(<<E_NoType>>), "entry without type"),
      ParseFailedReply("I think the row is fine}"),
      TransportFailedReply("Read timed out"),
      NumberedReply(99, "error", ListOf(<<E_Phone>>), "phone not formatted") }

DetectRows == {RowClean, RowLongId, RowZipX, RowBadDates}

\* ---------------------------------------------------- the streamed reply

\* Text that arrives from the endpoint is a sequence of lexemes <<kind, text>>:
\* "p" a punctuation character, "s" a string literal, "n" a number, "w" a run
\* of whitespace, "x" any other word.  No lexeme but Punct("}") ends with "}".
Punct(c) == <<"p", c>>
StrLit(s) == <<"s", s>>
Num(s) == <<"n", s>>
Space == <<"w", " ">>
Newline == <<"w", "\n">>
Word(s) == <<"x", s>>

IsSpace(tok) == tok[1] = "w"

\* str.strip(): leading and trailing whitespace removed.
RECURSIVE Strip(_)
Strip(text) ==
    IF text = <<>> THEN <<>>
    ELSE IF IsSpace(text[1]) THEN Strip(Tail(text))
    ELSE IF IsSpace(text[Len(text)]) THEN Strip(SubSeq(text, 1, Len(text) - 1))
    ELSE text

\* str.endswith("}")
EndsWithBrace(text) == text # <<>> /\ text[Len(text)] = Punct("}")

\* A repair that closes the text whatever it ends with.
brace_repair_always(full_response) == Append(full_response, Punct("}"))

\* Lines 99-100: the test looks at the stripped text, the append is to the
\* text itself.
brace_repair(full_response) ==
    IF ~EndsWithBrace(Strip(full_response))
    THEN Append(full_response, Punct("}"))
    ELSE full_response

\* JSON values.  An object's items are its members in order, an array's
\* items its elements (under the key "").
JStr(s) == [t |-> "str", s |-> s, items |-> <<>>]
JNum(s) == [t |-> "num", s |-> s, items |-> <<>>]
JArr(items) == [t |-> "arr", s |-> "", items |-> items]
JObj(members) == [t |-> "obj", s |-> "", items |-> members]
Member(k, v) == [key |-> k, value |-> v]

ParseResult(ok, val, next) == [ok |-> ok, val |-> val, next |-> next]
JSONDecodeError == ParseResult(FALSE, JNum("0"), 0)

TokenAt(toks, i) == IF i \in 1..Len(toks) THEN toks[i] ELSE <<"eof", "">>

\* json.loads: value := string | number | "[" elements "]" | "{" members "}".
RECURSIVE json_value(_, _), json_members(_, _, _), json_elements(_, _, _)
json_value(toks, i) ==
    LET tok == TokenAt(toks, i)
    IN  CASE tok[1] = "s" -> ParseResult(TRUE, JStr(tok[2]), i + 1)
          [] tok[1] = "n" -> ParseResult(TRUE, JNum(tok[2]), i + 1)
          [] tok = Punct("{") ->
                IF TokenAt(toks, i + 1) = Punct("}")
                THEN ParseResult(TRUE, JObj(<<>>), i + 2)
                ELSE json_members(toks, i + 1, <<>>)
          [] tok = Punct("[") ->
                IF TokenAt(toks, i + 1) = Punct("]")
                THEN ParseResult(TRUE, JArr(<<>>), i + 2)
                ELSE json_elements(toks, i + 1, <<>>)
          [] OTHER -> JSONDecodeError

json_members(toks, i, acc) ==
    LET key == TokenAt(toks, i)
    IN  IF key[1] # "s" \/ TokenAt(toks, i + 1) # Punct(":") THEN JSONDecodeError
        ELSE LET r == json_value(toks, i + 2)
             IN  IF ~r.ok THEN JSONDecodeError
                 ELSE LET members == Append(acc, Member(key[2], r.val))
                          sep == TokenAt(toks, r.next)
                      IN  CASE sep = Punct(",") -> json_members(toks, r.next + 1, members)
                            [] sep = Punct("}") ->
                                  ParseResult(TRUE, JObj(members), r.next + 1)
                            [] OTHER -> JSONDecodeError

json_elements(toks, i, acc) ==
    LET r == json_value(toks, i)
    IN  IF ~r.ok THEN JSONDecodeError
        ELSE LET elements == Append(acc, Member("", r.val))
                 sep == TokenAt(toks, r.next)
             IN  CASE sep = Punct(",") -> json_elements(toks, r.next + 1, elements)
                   [] sep = Punct("]") -> ParseResult(TRUE, JArr(elements), r.next + 1)
                   [] OTHER -> JSONDecodeError

\* Whitespace between lexemes is insignificant; anything after the value is
\* "Extra data".
json_loads(text) ==
    LET toks == SelectSeq(text, LAMBDA tok : ~IsSpace(tok))
        r == json_value(toks, 1)
    IN  IF r.ok /\ r.next = Len(toks) + 1 THEN r ELSE JSONDecodeError

\* The members of an object with key k (a dict keeps the last one).
MembersNamed(obj, k) == SelectSeq(obj.items, LAMBDA m : m.key = k)
HasKey(obj, k) == MembersNamed(obj, k) # <<>>
ValueOf(obj, k) == MembersNamed(obj, k)[Len(MembersNamed(obj, k))].value

\* A member as the detection model carries it: a string, JNull for a value
\* of another JSON type, Absent for a missing key.
TextOf(obj, k) ==
    IF ~HasKey(obj, k) THEN Absent
    ELSE IF ValueOf(obj, k).t = "str" THEN ValueOf(obj, k).s ELSE JNull

\* An element of "errors" (an element that is no object has none of the keys).
EntryOf(v) ==
    IF v.t = "obj"
    THEN ErrorEntry(TextOf(v, "field"), TextOf(v, "error_type"), TextOf(v, "description"))
    ELSE ErrorEntry(Absent, Absent, Absent)

\* The "errors" member: a number behaves as None does (neither has extend
\* nor len).
ErrorsOf(obj) ==
    IF ~HasKey(obj, "errors") THEN NotAList("absent")
    ELSE LET v == ValueOf(obj, "errors")
         IN  CASE v.t = "arr" -> ListOf([i \in 1..Len(v.items) |-> EntryOf(v.items[i].value)])
               [] v.t = "str" -> NotAList("str")
               [] OTHER -> NotAList("null")

\* A reply whose parse-failure text is the accumulated text as it arrived.
parse_reply_unrepaired(full_response) ==
    LET r == json_loads(brace_repair(full_response))
    IN  IF r.ok /\ r.val.t = "obj"
        THEN ParsedReply(TextOf(r.val, "error_detection"), ErrorsOf(r.val),
                         TextOf(r.val, "reasoning"))
        ELSE ParseFailedReply(full_response)

\* Lines 98-121: brace repair, json.loads, and on JSONDecodeError the
\* repaired text, stripped, as the reasoning.
parse_reply(full_response) ==
    LET repaired == brace_repair(full_response)
        r == json_loads(repaired)
    IN  IF r.ok /\ r.val.t = "obj"
        THEN ParsedReply(TextOf(r.val, "error_detection"), ErrorsOf(r.val),
                         TextOf(r.val, "reasoning"))
        ELSE ParseFailedReply(Strip(repaired))

\* The lines response.iter_lines() yields.  "empty" is a keep-alive line,
\* "text" a line that is no JSON, "chunk" a JSON object with a "response"
\* string, "status" a JSON object without one, "scalar" a JSON number.
ChunkLine(kind, response) == [kind |-> kind, response |-> response]
Fragment(text) == ChunkLine("chunk", text)

\* Lines 89-96 for one line: full_response += json_response['response'].
append_fragment(full_response, line) ==
    IF line.kind = "chunk" THEN full_response \o line.response ELSE full_response

\* "'response' in json_response" raises TypeError when the line is a number.
line_raises(line) == line.kind = "scalar"

\* The reply of specification section 8, in two fragments, without its
\* closing brace.
Frag_Head ==
    << Punct("{"), StrLit("row_number"), Punct(":"), Num("5"), Punct(","),
       StrLit("error_detection"), Punct(":"), StrLit("no error"), Punct(",") >>
Frag_Tail ==
    << StrLit("errors"), Punct(":"), Punct("["), Punct("]"), Punct(","),
       StrLit("reasoning"), Punct(":"), StrLit("ok") >>

ChunkLines ==
    { Fragment(Frag_Head), Fragment(Frag_Tail),
      Fragment(<< Punct("}") >>), Fragment(<< Punct("}"), Newline >>),
      Fragment(<< Word("Sure"), Space >>),
      ChunkLine("empty", <<>>), ChunkLine("text", <<>>),
      ChunkLine("status", <<>>), ChunkLine("scalar", <<>>) }

\* Largest number of lines of one streamed reply.
MaxLines == 3

\* str(e) of what session.post or iter_lines can raise.
TransportMessages == {"Read timed out", "Connection broken"}
TypeErrorMessage == "argument of type 'int' is not iterable"

\* ------------------------------------------------------------------ state

VARIABLES
    df,             \* the table read from the input CSV (a sequence of rows)
    readable,       \* whether pd.read_csv succeeds
    pc,             \* where analyze_csv / __main__ is
    index,          \* the loop variable of analyze_csv (0-based)
    reply,          \* the outcome of the request in flight
    replies,        \* log: the outcome of every request made, in order
    phi2_result,    \* the model's DetectionResult of the current row
    results,        \* analyze_csv's results list
    returned,       \* what analyze_csv returned: "pending", "results", "None"
    output,         \* the document save_results wrote, or NoOutput
    row_state,      \* per row: how far analyze_csv got with it
    requests        \* per row: detection requests made for it

dvars == <<df, readable, pc, index, reply, replies, phi2_result, results, returned, output,
           row_state, requests>>

VARIABLES
    c_pc,               \* where correct_errors is
    detailed_results,   \* results['detailed_results'] of the detection JSON
    num_processes,      \* min(4, mp.cpu_count())
    row_data,           \* the tuples handed to pool.map
    task,               \* per tuple: the worker task's position and return value
    c_replies,          \* log: the correction reply each task received
    corrected_df,       \* df.copy(), then the write-back
    corrections_log,    \* the orchestrator's corrections_log
    wb,                 \* position of the write-back loop in pool.map's result
    csv_file,           \* the corrected CSV on disk, or NoFile
    json_file           \* the corrections JSON on disk, or NoOutput

cvars == <<c_pc, detailed_results, num_processes, row_data, task, c_replies,
           corrected_df, corrections_log, wb, csv_file, json_file>>

VARIABLES
    f_facility_id,      \* the argument of a direct call of get_facility_examples
    f_pc,               \* "call" before that call, "returned" after it
    f_examples          \* what the call returned

fvars == <<f_facility_id, f_pc, f_examples>>

VARIABLES
    stream,             \* the lines response.iter_lines() will yield
    a_row_number,       \* the row_number argument of detect_errors_in_row
    a_pc,               \* "post", "iter" (in the for loop), "done"
    a_pos,              \* how many lines of the stream have been read
    full_response,      \* the accumulated text
    a_reply,            \* the tier the call ended in
    a_result            \* what detect_errors_in_row returned

avars == <<stream, a_row_number, a_pc, a_pos, full_response, a_reply, a_result>>

VARIABLES
    k_row,              \* the row handed to the deterministic checks
    k_pc,               \* "check" before the two loops, "checked" after
    k_errors            \* additional_errors

kvars == <<k_row, k_pc, k_errors>>

VARIABLES
    t_pc,               \* "send", "wait", "returned" (a response), "raised"
    t_total,            \* Retry.total: retries still allowed
    t_events,           \* log: how every attempt of the POST ended
    t_status            \* status of the response handed to the caller, or 0

tvars == <<t_pc, t_total, t_events, t_status>>

VARIABLES
    e_pc,               \* "idle", "start", "done": the call of evaluate_detection
    e_detailed_results, \* detected_errors["detailed_results"], as json.load gave it
    ground_truth_df,    \* the ground-truth table
    e_detected,         \* the predicted labels
    e_actual_errors,    \* the ground-truth labels
    e_scores            \* what evaluate_detection returned

evars == <<e_pc, e_detailed_results, ground_truth_df, e_detected, e_actual_errors, e_scores>>

\* What each script leaves alone.
notDetect == <<cvars, fvars, avars, kvars, tvars, evars>>
notCorrect == <<dvars, fvars, avars, kvars, tvars, evars>>
notFacility == <<dvars, cvars, avars, kvars, tvars, evars>>
notAssemble == <<dvars, cvars, fvars, kvars, tvars, evars>>
notChecks == <<dvars, cvars, fvars, avars, tvars, evars>>
notTransport == <<dvars, cvars, fvars, avars, kvars, evars>>
notEvaluate == <<dvars, cvars, fvars, avars, kvars, tvars>>

NoReply == [tier |-> "none", error_detection |-> Absent, errors |-> NotAList("absent"),
            reasoning |-> Absent, text |-> ""]
NoResult == DetectionResult(0, Absent, NotAList("absent"), Absent)

IdleAssemble ==
    /\ stream = <<>> /\ a_row_number = 0 /\ a_pc = "idle" /\ a_pos = 0
    /\ full_response = <<>> /\ a_reply = NoReply /\ a_result = NoResult

IdleChecks == k_row = <<>> /\ k_pc = "idle" /\ k_errors = <<>>

IdleTransport == t_pc = "idle" /\ t_total = 0 /\ t_events = <<>> /\ t_status = 0

NoScores == [precision |-> <<0, 1>>, recall |-> <<0, 1>>, f1 |-> <<0, 1>>, accuracy |-> <<0, 1>>]

IdleEvaluate ==
    /\ e_pc = "idle" /\ e_detailed_results = <<>> /\ ground_truth_df = <<>>
    /\ e_detected = <<>> /\ e_actual_errors = <<>> /\ e_scores = NoScores

InitDetect ==
    /\ readable \in BOOLEAN
    /\ df \in (IF readable THEN SeqsUpTo(DetectRows, MaxRows) ELSE {<<>>})
    /\ pc = "start"
    /\ index = 0
    /\ reply = NoReply
    /\ replies = <<>>
    /\ phi2_result = NoResult
    /\ results = <<>>
    /\ returned = "pending"
    /\ output = NoOutput
    /\ row_state = [k \in 1..Len(df) |-> "Pending"]
    /\ requests = [k \in 1..Len(df) |-> 0]

\* A loop without the delay between requests.
LoopAt_no_delay(i) == IF i >= Len(df) THEN "returned" ELSE "request"

\* Where the loop goes for row `i` (0-based): past the end it returns the list.
LoopAt(i) ==
    IF i >= Len(df) THEN "returned" ELSE IF i > 0 THEN "sleep" ELSE "request"

\* pd.read_csv succeeds; results = [].
ReadCsv ==
    /\ pc = "start" /\ readable
    /\ pc' = LoopAt(0)
    /\ returned' = IF Len(df) = 0 THEN "results" ELSE returned
    /\ UNCHANGED <<df, readable, index, reply, replies, phi2_result, results, output,
                   row_state, requests>>
    /\ UNCHANGED notDetect

\* pd.read_csv raises: the outer except returns None.
ReadCsvFails ==
    /\ pc = "start" /\ ~readable
    /\ pc' = "returned" /\ returned' = "None"
    /\ UNCHANGED <<df, readable, index, reply, replies, phi2_result, results, output,
                   row_state, requests>>
    /\ UNCHANGED notDetect

\* time.sleep(delay_between_requests), for every row but the first.
Sleep ==
    /\ pc = "sleep"
    /\ pc' = "request"
    /\ UNCHANGED <<df, readable, index, reply, replies, phi2_result, results, returned, output,
                   row_state, requests>>
    /\ UNCHANGED notDetect

\* session.post(...) of detect_errors_in_row.
Request ==
    /\ pc = "request"
    /\ pc' = "await"
    /\ row_state' = [row_state EXCEPT ![index + 1] = "Requested"]
    /\ requests' = [requests EXCEPT ![index + 1] = @ + 1]
    /\ UNCHANGED <<df, readable, index, reply, replies, phi2_result, results, returned, output>>
    /\ UNCHANGED notDetect

\* The request ends in one of the three tiers; detect_errors_in_row returns.
Respond(r) ==
    /\ pc = "await"
    /\ reply' = r
    /\ replies' = Append(replies, r)
    /\ phi2_result' = detect_errors_in_row(index + 1, r)
    /\ pc' = "merge"
    /\ row_state' = [row_state EXCEPT ![index + 1] = r.tier]
    /\ UNCHANGED <<df, readable, index, results, returned, output, requests>>
    /\ UNCHANGED notDetect

ReplyParsed == \E r \in DetectReplies : r.tier = "Parsed" /\ Respond(r)
ReplyParseFailed == \E r \in DetectReplies : r.tier = "ParseFailed" /\ Respond(r)
ReplyTransportFailed == \E r \in DetectReplies : r.tier = "TransportFailed" /\ Respond(r)

\* The deterministic checks, the merge and results.append; an exception in
\* the loop body reaches analyze_csv's outer except, which returns None.
\* A row is "Merged" once lines 221-224 are through and "Final" once it is
\* appended and reported (lines 226-232); when extend raises the row stays
\* where its reply left it.
Merge ==
    /\ pc = "merge"
    /\ LET additional == additional_errors(df[index + 1])
       IN  IF merge_raises(phi2_result, additional)
           THEN /\ pc' = "returned" /\ returned' = "None"
                /\ row_state' =
                      IF additional # <<>> /\ phi2_result.errors.kind # "list"
                      THEN row_state
                      ELSE [row_state EXCEPT ![index + 1] = "Merged"]
                /\ UNCHANGED <<index, results>>
           ELSE /\ results' = Append(results, merge_results(phi2_result, additional))
                /\ index' = index + 1
                /\ pc' = LoopAt(index + 1)
                /\ returned' = IF index + 1 >= Len(df) THEN "results" ELSE returned
                /\ row_state' = [row_state EXCEPT ![index + 1] = "Final"]
    /\ UNCHANGED <<df, readable, reply, replies, phi2_result, output, requests>>
    /\ UNCHANGED notDetect

\* __main__: "if results: save_results(results)".
SaveResults ==
    /\ pc = "returned" /\ returned = "results" /\ results # <<>>
    /\ IF save_raises(results)
       THEN pc' = "crashed" /\ UNCHANGED output
       ELSE pc' = "saved" /\ output' = save_results(results)
    /\ UNCHANGED <<df, readable, index, reply, replies, phi2_result, results, returned,
                   row_state, requests>>
    /\ UNCHANGED notDetect

\* __main__ with nothing to save: None, or an empty list.
SkipSave ==
    /\ pc = "returned" /\ (returned = "None" \/ results = <<>>)
    /\ pc' = "exit"
    /\ UNCHANGED <<df, readable, index, reply, replies, phi2_result, results, returned, output,
                   row_state, requests>>
    /\ UNCHANGED notDetect

\* ============================================================ correction

\* ---------------------------------------------- get_facility_examples

None == [is_none |-> TRUE]

\* A filter under which two empty identifiers match each other.
MatchingRows_nan_equal(table, facility_id) ==
    SelectSeq([i \in 1..Len(table) |-> i],
              LAMBDA i : table[i]["Facility ID"] = facility_id)

\* df[df['Facility ID'] == facility_id]: the positions of the matching rows.
\* NaN compares unequal to everything, itself included.
MatchingRows(table, facility_id) ==
    SelectSeq([i \in 1..Len(table) |-> i],
              LAMBDA i : ~isna(facility_id) /\ table[i]["Facility ID"] = facility_id)

FacilityTuple(row) == [j \in 1..Len(FacilityColumns) |-> row[FacilityColumns[j]]]

RECURSIVE DropDuplicates(_, _, _)
\* drop_duplicates(subset): keeps the first row of every combination of the 7
\* columns (two NaN cells count as equal), in the original order.
DropDuplicates(table, idx, seen) ==
    IF idx = <<>> THEN <<>>
    ELSE LET t == FacilityTuple(table[Head(idx)])
         IN  IF t \in seen
             THEN DropDuplicates(table, Tail(idx), seen)
             ELSE <<Head(idx)>> \o DropDuplicates(table, Tail(idx), seen \cup {t})

FacilityInfo(row) ==
    [is_none |-> FALSE,
     facility_name |-> row["Facility Name"], address |-> row["Address"],
     city |-> row["City/Town"], state |-> row["State"], zip |-> row["ZIP Code"],
     county |-> row["County/Parish"], phone |-> row["Telephone Number"]]

\* A resolver that takes the last surviving combination instead of the first.
get_facility_examples_last(table, facility_id) ==
    LET matching_rows == DropDuplicates(table, MatchingRows(table, facility_id), {})
    IN  IF matching_rows # <<>>
        THEN FacilityInfo(table[matching_rows[Len(matching_rows)]])
        ELSE None

get_facility_examples(table, facility_id) ==
    LET matching_rows == DropDuplicates(table, MatchingRows(table, facility_id), {})
    IN  IF matching_rows # <<>>
        THEN FacilityInfo(table[matching_rows[1]])
        ELSE None

\* ------------------------------------------------- process_single_row

\* error_patterns of correct_errors.
error_patterns ==
    [missing_value |-> "Field is empty or contains nan",
     length_violation |-> "Value length does not meet requirements",
     nan_value |-> "Contains nan instead of valid data",
     typo |-> "Contains spelling errors or typos",
     invalid_value |-> "Value does not meet field requirements",
     invalid_format |-> "Format does not match requirements",
     numeric_value_in_text |-> "Contains numbers where text is expected",
     invalid_date_format |-> "Date format does not match MM/DD/YYYY",
     invalid_characters |-> "Contains invalid or special characters"]

PatternDescription(p, default) ==
    IF p \in DOMAIN error_patterns THEN error_patterns[p] ELSE default

\* The loop of lines 55-62 runs outside the try: error['error_type'] and
\* error['field'] raise KeyError on a missing key, .lower() raises on a value
\* that is no string, and indexing a character of a string raises TypeError.
format_errors_raises(result) ==
    \/ result.errors.kind = "str"
    \/ \E i \in 1..Len(result.errors.items) :
          \/ result.errors.items[i].error_type \in {Absent, JNull}
          \/ result.errors.items[i].field = Absent

\* The parsed correction reply: corrected_fields and correction_details are
\* "absent", a "dict" (items in key order) or "other" (any other JSON value).
\* An item of corrected_fields is <<field, value>>; an item of
\* correction_details is <<field, error_pattern, reason>>.
CorrectionObject(cf_kind, cf_items, cd_kind, cd_items) ==
    [tier |-> "Parsed",
     corrected_fields |-> [kind |-> cf_kind, items |-> cf_items],
     correction_details |-> [kind |-> cd_kind, items |-> cd_items],
     text |-> ""]
CorrectionFailure(tier, text) ==
    [tier |-> tier,
     corrected_fields |-> [kind |-> "absent", items |-> <<>>],
     correction_details |-> [kind |-> "absent", items |-> <<>>],
     text |-> text]
NoCorrectionReply == CorrectionFailure("none", "")

\* corrections.get('correction_details', {}).get(field, {})
DetailFor(details, field) ==
    LET hits == SelectSeq(details.items, LAMBDA d : d[1] = field)
    IN  IF hits = <<>> THEN <<field, Absent, Absent>> ELSE hits[1]

\* next((error['error_type'] for error in result['errors']
\*       if error['field'] == field), "unknown")
FirstErrorType(result, field) ==
    LET hits == SelectSeq(result.errors.items, LAMBDA e : e.field = field)
    IN  IF hits = <<>> THEN "unknown" ELSE hits[1].error_type

\* A record that never looks the detected error type up.
correction_record_unknown_type(result, row_number, row, item, details) ==
    LET detail == DetailFor(details, item[1])
        error_pattern == Get(detail[2], "unknown")
    IN  [row_number |-> row_number,
         field |-> item[1],
         original_value |-> Str(row[item[1]]),
         corrected_value |-> item[2],
         error_type |-> "unknown",
         error_pattern |-> error_pattern,
         error_description |-> PatternDescription(error_pattern, "Unknown error pattern"),
         correction_reason |->
            Get(detail[3], "Corrected based on field rules and requirements")]

correction_record(result, row_number, row, item, details) ==
    LET detail == DetailFor(details, item[1])
        error_pattern == Get(detail[2], "unknown")
    IN  [row_number |-> row_number,
         field |-> item[1],
         original_value |-> Str(row[item[1]]),
         corrected_value |-> item[2],
         error_type |-> FirstErrorType(result, item[1]),
         error_pattern |-> error_pattern,
         error_description |-> PatternDescription(error_pattern, "Unknown error pattern"),
         correction_reason |->
            Get(detail[3], "Corrected based on field rules and requirements")]

\* What the try block of lines 134-197 returns: <<row_number, corrections,
\* log>>.  corrections is None after any exception: transport, JSON, .items()
\* or .get() on a value that is no dict, row[field] for an unknown column.
TaskReturn(n, corrections, log) ==
    [row_number |-> n, row_corrections |-> corrections, row_logs |-> log]
NoCorrections == [is_none |-> TRUE, items |-> <<>>]
Corrections(items) == [is_none |-> FALSE, items |-> items]

\* A task that returns every proposed field, with a record for each field
\* that is a column, whether or not handling a field failed.
process_reply_keeps_row(result, row_number, row, r) ==
    IF r.tier # "Parsed" \/ r.corrected_fields.kind = "other"
    THEN TaskReturn(row_number, NoCorrections, <<>>)
    ELSE LET known == SelectSeq(r.corrected_fields.items, LAMBDA item : item[1] \in DOMAIN row)
             details == IF r.correction_details.kind = "other"
                        THEN [kind |-> "absent", items |-> <<>>]
                        ELSE r.correction_details
         IN  TaskReturn(row_number, Corrections(r.corrected_fields.items),
                [j \in 1..Len(known) |->
                    correction_record(result, row_number, row, known[j], details)])

process_reply(result, row_number, row, r) ==
    IF \/ r.tier # "Parsed"
       \/ r.corrected_fields.kind = "other"
       \/ r.corrected_fields.items # <<>> /\ r.correction_details.kind = "other"
       \/ \E j \in 1..Len(r.corrected_fields.items) :
             r.corrected_fields.items[j][1] \notin DOMAIN row
    THEN TaskReturn(row_number, NoCorrections, <<>>)
    ELSE TaskReturn(row_number, Corrections(r.corrected_fields.items),
            [j \in 1..Len(r.corrected_fields.items) |->
                correction_record(result, row_number, row,
                                  r.corrected_fields.items[j], r.correction_details)])

\* ------------------------------------------------------ correct_errors

\* Line 321: result.get('error_detection') != 'no error' and result.get('errors')
Selected(result) ==
    /\ result.error_detection # "no error"
    /\ \/ result.errors.kind = "str"
       \/ result.errors.kind = "list" /\ result.errors.items # <<>>

RECURSIVE build_row_data(_, _, _)
build_row_data(table, detailed, i) ==
    IF i > Len(detailed) THEN <<>>
    ELSE (IF Selected(detailed[i])
          THEN << [result |-> detailed[i], row_number |-> detailed[i].row_number,
                   row |-> table[detailed[i].row_number]] >>
          ELSE <<>>)
         \o build_row_data(table, detailed, i + 1)

\* DataFrame.at[label, field] = value: the cell is set; a field that is no
\* column becomes a new column, NaN in every other row.
set_at(table, n, field, value) ==
    IF field \in DOMAIN table[n]
    THEN [table EXCEPT ![n][field] = value]
    ELSE [k \in 1..Len(table) |->
            [c \in DOMAIN table[k] \cup {field} |->
                IF c # field THEN table[k][c]
                ELSE IF k = n THEN value ELSE NaN]]

RECURSIVE set_cells(_, _, _)
set_cells(table, n, items) ==
    IF items = <<>> THEN table
    ELSE set_cells(set_at(table, n, Head(items)[1], Head(items)[2]), n, Tail(items))

\* A write-back that uses the 1-based row number as the 0-based label.
apply_corrections_off_by_one(table, ret) ==
    IF ~ret.row_corrections.is_none /\ ret.row_corrections.items # <<>>
       /\ ret.row_number + 1 <= Len(table)
    THEN set_cells(table, ret.row_number + 1, ret.row_corrections.items)
    ELSE table

\* Lines 340-342: corrected_df.at[row_number - 1, field] = value for every
\* returned field, when row_corrections is neither None nor empty.
apply_corrections(table, ret) ==
    IF ~ret.row_corrections.is_none /\ ret.row_corrections.items # <<>>
    THEN set_cells(table, ret.row_number, ret.row_corrections.items)
    ELSE table

\* Lines 363-366: the error_types comprehension reads error['error_type'] of
\* every entry of every result with a non-empty errors value.
summary_raises(detailed) ==
    \E i \in 1..Len(detailed) :
        \/ detailed[i].errors.kind = "str"
        \/ \E j \in 1..Len(detailed[i].errors.items) :
              detailed[i].errors.items[j].error_type = Absent

corrections_summary(table, log) ==
    [written |-> TRUE,
     total_rows |-> Len(table),
     rows_corrected |-> Cardinality({log[i].row_number : i \in 1..Len(log)}),
     total_corrections |-> Len(log),
     corrections |-> log]

NoFile == <<>>

\* ---------------------------------------------------- correction replies

CF_Phone == <<"Telephone Number", Chars_Phone>>
CF_PhoneOther == <<"Telephone Number", Chars_PhoneOther>>
CF_Date == <<"Start Date", Chars_DateMDY>>
CF_DateOther == <<"Start Date", Chars_DateOther>>
CF_Bogus == <<"Phone", Chars_Phone>>
CD_Phone == <<"Telephone Number", "invalid_format", "added punctuation">>

\* What the model endpoint can answer to a correction request.
CorrectReplies ==
    { CorrectionObject("dict", <<CF_Phone, CF_Date>>, "dict", <<CD_Phone>>),
      CorrectionObject("dict", <<CF_PhoneOther>>, "absent", <<>>),
      CorrectionObject("dict", <<CF_DateOther>>, "absent", <<>>),
      CorrectionObject("dict", <<CF_Date, CF_Bogus>>, "dict", <<CD_Phone>>),
      CorrectionObject("dict", <<>>, "absent", <<>>),
      CorrectionObject("absent", <<>>, "absent", <<>>),
      CorrectionObject("other", <<>>, "absent", <<>>),
      CorrectionObject("dict", <<CF_Phone>>, "other", <<>>),
      CorrectionFailure("ParseFailed", "Here are the corrections}"),
      CorrectionFailure("TransportFailed", "Read timed out") }

CorrectRows == {RowRaw, RowBlankPhone, RowOther}

\* The detection replies behind the detection JSON that correction reads.
PriorReplies ==
    { ParsedReply("no error", ListOf(<<>>), "No errors found"),
      ParsedReply("error", ListOf(<<E_Zip, E_Phone>>), "bad zip and phone"),
      ParsedReply("error", ListOf(<<E_NoType>>), "entry without type") }

\* The detailed_results analyze_csv returns for a table and one reply per row.
analyze(table, rs) ==
    [k \in 1..Len(table) |->
        merge_results(detect_errors_in_row(k, rs[k]), additional_errors(table[k]))]

\* os.cpu_count() of the machine.
CpuCounts == {1, 8}
Min(a, b) == IF a < b THEN a ELSE b

NoTask == [st |-> "queued", facility_examples |-> None,
           ret |-> TaskReturn(0, NoCorrections, <<>>)]

IdleCorrect ==
    /\ c_pc = "idle" /\ detailed_results = <<>> /\ num_processes = 0
    /\ row_data = <<>> /\ task = <<>> /\ c_replies = <<>>
    /\ corrected_df = <<>> /\ corrections_log = <<>> /\ wb = 0
    /\ csv_file = NoFile /\ json_file = NoOutput

IdleFacility == f_facility_id = <<>> /\ f_pc = "idle" /\ f_examples = None

IdleDetect ==
    /\ readable = TRUE /\ pc = "idle" /\ index = 0 /\ reply = NoReply
    /\ replies = <<>> /\ phi2_result = NoResult /\ results = <<>>
    /\ returned = "pending" /\ output = NoOutput
    /\ row_state = <<>> /\ requests = <<>>

\* The files correct_errors starts from: a table and the detection JSON that
\* the detector wrote for it (analyze_csv returned, save_results did not raise).
InitCorrect ==
    /\ IdleDetect /\ IdleFacility /\ IdleAssemble /\ IdleChecks /\ IdleTransport
    /\ IdleEvaluate
    /\ df \in {t \in SeqsUpTo(CorrectRows, MaxRows) : t # <<>>}
    /\ \E rs \in [1..Len(df) -> PriorReplies] :
          /\ \A k \in 1..Len(df) :
                ~merge_raises(detect_errors_in_row(k, rs[k]), additional_errors(df[k]))
          /\ ~save_raises(analyze(df, rs))
          /\ detailed_results = analyze(df, rs)
    /\ c_pc = "start"
    /\ num_processes \in {Min(4, n) : n \in CpuCounts}
    /\ row_data = <<>> /\ task = <<>> /\ c_replies = <<>>
    /\ corrected_df = <<>> /\ corrections_log = <<>> /\ wb = 0
    /\ csv_file = NoFile /\ json_file = NoOutput

\* Lines 202-335: read the files, copy the table, select the rows, open the pool.
StartCorrection ==
    /\ c_pc = "start"
    /\ corrected_df' = df
    /\ row_data' = build_row_data(df, detailed_results, 1)
    /\ task' = [i \in 1..Len(row_data') |-> NoTask]
    /\ c_replies' = [i \in 1..Len(row_data') |-> NoCorrectionReply]
    /\ c_pc' = "map"
    /\ UNCHANGED <<detailed_results, num_processes, corrections_log, wb,
                   csv_file, json_file>>
    /\ UNCHANGED notCorrect

Running == {i \in DOMAIN task : task[i].st = "posted"}

\* A free worker takes the next tuple: lines 48-146 of process_single_row, up
\* to the request.  An exception of the formatting loop leaves the function.
TaskStart(i) ==
    /\ c_pc = "map"
    /\ task[i].st = "queued"
    /\ \A j \in 1..(i - 1) : task[j].st # "queued"
    /\ Cardinality(Running) < num_processes
    /\ task' = [task EXCEPT ![i] =
          [@ EXCEPT !.facility_examples =
                        get_facility_examples(df, row_data[i].row["Facility ID"]),
                    !.st = IF format_errors_raises(row_data[i].result)
                           THEN "raised" ELSE "posted"]]
    /\ UNCHANGED <<c_pc, detailed_results, num_processes, row_data, c_replies,
                   corrected_df, corrections_log, wb, csv_file, json_file>>
    /\ UNCHANGED notCorrect

\* The request ends; lines 148-197 build the task's return value.
TaskRespond(i, r) ==
    /\ c_pc = "map"
    /\ task[i].st = "posted"
    /\ c_replies' = [c_replies EXCEPT ![i] = r]
    /\ task' = [task EXCEPT ![i] =
          [@ EXCEPT !.st = "returned",
                    !.ret = process_reply(row_data[i].result, row_data[i].row_number,
                                          row_data[i].row, r)]]
    /\ UNCHANGED <<c_pc, detailed_results, num_processes, row_data,
                   corrected_df, corrections_log, wb, csv_file, json_file>>
    /\ UNCHANGED notCorrect

TaskParsed ==
    \E i \in DOMAIN task : \E r \in CorrectReplies : r.tier = "Parsed" /\ TaskRespond(i, r)
TaskParseFailed ==
    \E i \in DOMAIN task : \E r \in CorrectReplies : r.tier = "ParseFailed" /\ TaskRespond(i, r)
TaskTransportFailed ==
    \E i \in DOMAIN task : \E r \in CorrectReplies :
        r.tier = "TransportFailed" /\ TaskRespond(i, r)
TaskStarts == \E i \in DOMAIN task : TaskStart(i)

AllFinished == \A i \in DOMAIN task : task[i].st \in {"returned", "raised"}

\* A map that hands results over as soon as the first task has returned.
MapReturns_first_result ==
    /\ c_pc = "map" /\ task # <<>> /\ task[1].st = "returned"
    /\ c_pc' = "writeback"
    /\ wb' = 1
    /\ UNCHANGED <<detailed_results, num_processes, row_data, task, c_replies,
                   corrected_df, corrections_log, csv_file, json_file>>
    /\ UNCHANGED notCorrect

\* pool.map returns the list of return values once every task has returned.
MapReturns ==
    /\ c_pc = "map" /\ AllFinished
    /\ \A i \in DOMAIN task : task[i].st = "returned"
    /\ c_pc' = IF task = <<>> THEN "save_csv" ELSE "writeback"
    /\ wb' = 1
    /\ UNCHANGED <<detailed_results, num_processes, row_data, task, c_replies,
                   corrected_df, corrections_log, csv_file, json_file>>
    /\ UNCHANGED notCorrect

\* pool.map re-raises a task's exception in correct_errors, which has no handler.
MapRaises ==
    /\ c_pc = "map" /\ AllFinished
    /\ \E i \in DOMAIN task : task[i].st = "raised"
    /\ c_pc' = "crashed"
    /\ UNCHANGED <<detailed_results, num_processes, row_data, task, c_replies,
                   corrected_df, corrections_log, wb, csv_file, json_file>>
    /\ UNCHANGED notCorrect

\* One iteration of the loop of lines 339-343.
WriteBack ==
    /\ c_pc = "writeback"
    /\ corrected_df' = apply_corrections(corrected_df, task[wb].ret)
    /\ corrections_log' =
          IF ~task[wb].ret.row_corrections.is_none
             /\ task[wb].ret.row_corrections.items # <<>>
          THEN corrections_log \o task[wb].ret.row_logs
          ELSE corrections_log
    /\ wb' = wb + 1
    /\ c_pc' = IF wb = Len(task) THEN "save_csv" ELSE "writeback"
    /\ UNCHANGED <<detailed_results, num_processes, row_data, task, c_replies,
                   csv_file, json_file>>
    /\ UNCHANGED notCorrect

\* corrected_df.to_csv(output_csv_path)
SaveCsv ==
    /\ c_pc = "save_csv"
    /\ csv_file' = corrected_df
    /\ c_pc' = "save_json"
    /\ UNCHANGED <<detailed_results, num_processes, row_data, task, c_replies,
                   corrected_df, corrections_log, wb, json_file>>
    /\ UNCHANGED notCorrect

\* The summary is built and dumped; an exception while building it leaves
\* correct_errors with the CSV written and no corrections JSON.
SaveJson ==
    /\ c_pc = "save_json"
    /\ IF summary_raises(detailed_results)
       THEN c_pc' = "crashed" /\ UNCHANGED json_file
       ELSE c_pc' = "done" /\ json_file' = corrections_summary(df, corrections_log)
    /\ UNCHANGED <<detailed_results, num_processes, row_data, task, c_replies,
                   corrected_df, corrections_log, wb, csv_file>>
    /\ UNCHANGED notCorrect

\* ------------------------------------------- the resolver called alone

FacilityRows == {RowClean, RowBlankPhone, RowOther, RowNoId}
FacilityIds == {Chars_ABC123, Chars_XYZ789, Chars_ABC1234, NaN}

\* Largest table handed to a direct call of get_facility_examples.
MaxFacilityRows == 3

InitFacility ==
    /\ IdleDetect /\ IdleCorrect /\ IdleAssemble /\ IdleChecks /\ IdleTransport
    /\ IdleEvaluate
    /\ df \in SeqsUpTo(FacilityRows, MaxFacilityRows)
    /\ f_facility_id \in FacilityIds
    /\ f_pc = "call"
    /\ f_examples = None

CallGetFacilityExamples ==
    /\ f_pc = "call"
    /\ f_examples' = get_facility_examples(df, f_facility_id)
    /\ f_pc' = "returned"
    /\ UNCHANGED f_facility_id
    /\ UNCHANGED notFacility

\* ------------------------------------- detect_errors_in_row on a stream

\* One call of detect_errors_in_row: the lines the endpoint will send are
\* fixed at the start; the connection can fail before or between them.
InitAssemble ==
    /\ IdleDetect /\ df = <<>> /\ IdleCorrect /\ IdleFacility
    /\ IdleChecks /\ IdleTransport /\ IdleEvaluate
    /\ stream \in SeqsUpTo(ChunkLines, MaxLines)
    /\ a_row_number \in {5, 7}
    /\ a_pc = "post" /\ a_pos = 0 /\ full_response = <<>>
    /\ a_reply = NoReply /\ a_result = NoResult

\* Lines 123-133: the outer except.
Raise(msg) ==
    /\ a_reply' = TransportFailedReply(msg)
    /\ a_result' = detect_errors_in_row(a_row_number, a_reply')
    /\ a_pc' = "done"
    /\ UNCHANGED <<stream, a_row_number, a_pos, full_response>>
    /\ UNCHANGED notAssemble

\* Lines 75-88: session.post returns a response; full_response = "".
Post ==
    /\ a_pc = "post"
    /\ a_pc' = "iter"
    /\ UNCHANGED <<stream, a_row_number, a_pos, full_response, a_reply, a_result>>
    /\ UNCHANGED notAssemble

\* session.post raises (timeout, connection refused, retries exhausted).
PostRaises == a_pc = "post" /\ \E msg \in TransportMessages : Raise(msg)

\* Lines 89-96: one turn of the for loop.
ReadLine ==
    /\ a_pc = "iter" /\ a_pos < Len(stream)
    /\ ~line_raises(stream[a_pos + 1])
    /\ full_response' = append_fragment(full_response, stream[a_pos + 1])
    /\ a_pos' = a_pos + 1
    /\ UNCHANGED <<stream, a_row_number, a_pc, a_reply, a_result>>
    /\ UNCHANGED notAssemble

\* A line that is JSON but no object: TypeError, not JSONDecodeError.
ReadLineRaises ==
    /\ a_pc = "iter" /\ a_pos < Len(stream)
    /\ line_raises(stream[a_pos + 1])
    /\ Raise(TypeErrorMessage)

\* iter_lines raises: the connection broke or the read timed out.
IterRaises == a_pc = "iter" /\ \E msg \in TransportMessages : Raise(msg)

\* Lines 98-121: the stream ended; repair, parse, return.
EndOfStream ==
    /\ a_pc = "iter" /\ a_pos = Len(stream)
    /\ a_reply' = parse_reply(full_response)
    /\ a_result' = detect_errors_in_row(a_row_number, a_reply')
    /\ a_pc' = "done"
    /\ UNCHANGED <<stream, a_row_number, a_pos, full_response>>
    /\ UNCHANGED notAssemble

\* ------------------------------------ the deterministic checks alone

\* The values tried in a length-checked field lie within LengthSlack
\* characters of the field's maximum.
LengthSlack == 1

Filler(n) == [i \in 1..n |-> "x"]

DigitChar(n) == <<"0", "1", "2", "3", "4", "5", "6", "7", "8", "9">>[n + 1]
YearChars(y) ==
    << DigitChar(y \div 1000), DigitChar((y \div 100) % 10),
       DigitChar((y \div 10) % 10), DigitChar(y % 10) >>

\* January 15 of the year, as MM/DD/YYYY and as YYYY-MM-DD.
DateMDY(y) == <<"0", "1", "/", "1", "5", "/">> \o YearChars(y)
DateISO(y) == YearChars(y) \o <<"-", "0", "1", "-", "1", "5">>

CheckYears ==
    {1600, TimestampMinYear - 1, TimestampMinYear, 1899, 1900, CurrentYear,
     CurrentYear + 1, CurrentYear + 2, TimestampMaxYear, TimestampMaxYear + 1}

DateValues ==
    {DateMDY(y) : y \in CheckYears} \cup {DateISO(y) : y \in CheckYears}
    \cup {NaN, Chars_DateJunk, <<"1", "3", "/", "4", "5", "/", "2", "0", "2", "3">>}

LengthValues(max_length) ==
    {Filler(n) : n \in {m \in (max_length - LengthSlack)..(max_length + LengthSlack) : m >= 1}}
    \cup {NaN, ZeroFloat}

\* The clean row with one cell replaced.
CheckRows ==
    UNION {{[RowClean EXCEPT ![field_lengths[i][1]] = v] :
                v \in LengthValues(field_lengths[i][2])} : i \in 1..Len(field_lengths)}
    \cup {[RowClean EXCEPT ![f] = v] : f \in {"Start Date", "End Date"}, v \in DateValues}

InitChecks ==
    /\ IdleDetect /\ df = <<>> /\ IdleCorrect /\ IdleFacility
    /\ IdleAssemble /\ IdleTransport /\ IdleEvaluate
    /\ k_row \in CheckRows
    /\ k_pc = "check"
    /\ k_errors = <<>>

\* Lines 190-219 of analyze_csv for one row.
RunChecks ==
    /\ k_pc = "check"
    /\ k_errors' = additional_errors(k_row)
    /\ k_pc' = "checked"
    /\ UNCHANGED k_row
    /\ UNCHANGED notChecks

\* ------------------------------------------- create_resilient_session

\* Retry(total=3, backoff_factor=1, status_forcelist=[500, 502, 503, 504],
\* allowed_methods=["POST"]), mounted for http and https.  The policy is
\* urllib3's: "total" counts every retry, whatever its cause; connect and
\* read are left unset, so connection errors are retried, and read errors
\* (a timeout before the response arrives) are retried for the allowed
\* methods; a response is retried when its status is in status_forcelist,
\* or when it carries Retry-After and its status is 413, 429 or 503.
RetryTotal == 3
status_forcelist == {500, 502, 503, 504}
allowed_methods == {"POST"}
RETRY_AFTER_STATUS_CODES == {413, 429, 503}

\* How one attempt of the POST can end.
Response(status, has_retry_after) ==
    [kind |-> "response", status |-> status, has_retry_after |-> has_retry_after]
ConnectionError == [kind |-> "connection_error", status |-> 0, has_retry_after |-> FALSE]
ReadTimeout == [kind |-> "read_timeout", status |-> 0, has_retry_after |-> FALSE]

Statuses == {200, 400, 404, 429, 500, 501, 502, 503, 504}

\* Retry.is_retry for a response, and Retry.increment's test for an error.
is_retry(method, total, event) ==
    CASE event.kind = "response" ->
            /\ method \in allowed_methods
            /\ \/ event.status \in status_forcelist
               \/ /\ total # 0 /\ event.has_retry_after
                  /\ event.status \in RETRY_AFTER_STATUS_CODES
      [] event.kind = "connection_error" -> TRUE
      [] event.kind = "read_timeout" -> method \in allowed_methods

\* Retry.is_exhausted: a count has gone below zero.
is_exhausted(total) == total < 0

InitTransport ==
    /\ IdleDetect /\ df = <<>> /\ IdleCorrect /\ IdleFacility
    /\ IdleAssemble /\ IdleChecks /\ IdleEvaluate
    /\ t_pc = "send"
    /\ t_total = RetryTotal
    /\ t_events = <<>>
    /\ t_status = 0

\* One attempt of session.post ends with the event: the response is handed
\* to the caller, or the attempt is retried, or the retries are exhausted
\* and session.post raises.
Attempt(event) ==
    /\ t_pc = "send"
    /\ t_events' = Append(t_events, event)
    /\ IF is_retry("POST", t_total, event)
       THEN /\ t_total' = t_total - 1
            /\ t_pc' = IF is_exhausted(t_total - 1) THEN "raised" ELSE "send"
            /\ UNCHANGED t_status
       ELSE /\ t_pc' = IF event.kind = "response" THEN "returned" ELSE "raised"
            /\ t_status' = event.status
            /\ UNCHANGED t_total
    /\ UNCHANGED notTransport

AttemptAnswered ==
    \E status \in Statuses : \E has_retry_after \in BOOLEAN :
        Attempt(Response(status, has_retry_after))
AttemptConnectionFails == Attempt(ConnectionError)
AttemptTimesOut == Attempt(ReadTimeout)

\* ------------------------------------------- detection, then correction

\* The table both scripts are run on.
PipelineTables == {<<RowLongId, RowRaw>>}

InitPipeline ==
    /\ readable \in BOOLEAN
    /\ df \in (IF readable THEN PipelineTables ELSE {<<>>})
    /\ pc = "start" /\ index = 0 /\ reply = NoReply /\ replies = <<>>
    /\ phi2_result = NoResult /\ results = <<>>
    /\ returned = "pending" /\ output = NoOutput
    /\ row_state = [k \in 1..Len(df) |-> "Pending"]
    /\ requests = [k \in 1..Len(df) |-> 0]
    /\ IdleCorrect /\ IdleFacility /\ IdleAssemble /\ IdleChecks /\ IdleTransport
    /\ IdleEvaluate

\* Lines 202-204 of correct_errors: the detection JSON that save_results
\* wrote is loaded.
LoadDetection ==
    /\ pc = "saved" /\ c_pc = "idle"
    /\ detailed_results' = output.detailed_results
    /\ num_processes' \in {Min(4, n) : n \in CpuCounts}
    /\ c_pc' = "start"
    /\ UNCHANGED <<row_data, task, c_replies, corrected_df, corrections_log, wb,
                   csv_file, json_file>>
    /\ UNCHANGED notCorrect

\* -------------------------------------------------- evaluate_detection

MaxEvalRows == 2

Upper == <<"A", "B", "C", "D", "E", "F", "G", "H", "I", "J", "K", "L", "M",
           "N", "O", "P", "Q", "R", "S", "T", "U", "V", "W", "X", "Y", "Z">>
Lowercase == <<"a", "b", "c", "d", "e", "f", "g", "h", "i", "j", "k", "l", "m",
               "n", "o", "p", "q", "r", "s", "t", "u", "v", "w", "x", "y", "z">>

\* JSON null among values that are texts.
null == <<"<null>">>

\* str(value) of a JSON string or null.
str(value) == IF value = null THEN <<"N", "o", "n", "e">> ELSE value

\* str.lower()
lower(text) ==
    [k \in 1..Len(text) |->
        IF \E u \in 1..Len(Upper) : Upper[u] = text[k]
        THEN Lowercase[CHOOSE u \in 1..Len(Upper) : Upper[u] = text[k]]
        ELSE text[k]]

\* sub in text
in(sub, text) ==
    \E k \in 0..(Len(text) - Len(sub)) : SubSeq(text, k + 1, k + Len(sub)) = sub

Text_error == <<"e", "r", "r", "o", "r">>
Text_no_error == <<"n", "o", " ", "e", "r", "r", "o", "r">>
Text_unknown == <<"u", "n", "k", "n", "o", "w", "n">>

\* The label of one detection result.
detected_label(item) == IF in(Text_error, lower(str(item.error_detection))) THEN 1 ELSE 0

detected(items) == [k \in 1..Len(items) |-> detected_label(items[k])]

\* row.isnull().any(), as an int, per row of the ground truth.
actual_errors(table) ==
    [k \in 1..Len(table) |-> IF \E c \in DOMAIN table[k] : isna(table[k][c]) THEN 1 ELSE 0]

Count(y_true, y_pred, t, q) == Cardinality({k \in 1..Len(y_true) : y_true[k] = t /\ y_pred[k] = q})

\* A score as <<numerator, denominator>>; 0 where sklearn divides by zero.
Score(num, den) == IF den = 0 THEN <<0, 1>> ELSE <<num, den>>

scores(y_true, y_pred) ==
    LET tp == Count(y_true, y_pred, 1, 1)
        fp == Count(y_true, y_pred, 0, 1)
        fn == Count(y_true, y_pred, 1, 0)
        tn == Count(y_true, y_pred, 0, 0)
    IN  [precision |-> Score(tp, tp + fp),
         recall |-> Score(tp, tp + fn),
         f1 |-> Score(2 * tp, 2 * tp + fp + fn),
         accuracy |-> Score(tp + tn, Len(y_true))]

\* error_detection as the detector writes it ("error", "no error",
\* "unknown") and as a model may have replied it.
Verdicts == {Text_error, Text_no_error, Text_unknown, <<"E", "r", "r", "o", "r">>, null}

EvalItem(n, ed) == [row_number |-> n, error_detection |-> ed]

\* load_data: a detection file and a ground truth with as many rows.
InitEvaluate ==
    /\ \E n \in 1..MaxEvalRows :
          /\ e_detailed_results \in
                {[k \in 1..n |-> EvalItem(k, v[k])] : v \in [1..n -> Verdicts]}
          /\ ground_truth_df \in [1..n -> {RowClean, RowBlankPhone}]
    /\ e_pc = "start"
    /\ e_detected = <<>> /\ e_actual_errors = <<>> /\ e_scores = NoScores
    /\ IdleDetect /\ df = <<>> /\ IdleCorrect /\ IdleFacility
    /\ IdleAssemble /\ IdleChecks /\ IdleTransport

evaluate_detection ==
    /\ e_pc = "start"
    /\ e_actual_errors' = actual_errors(ground_truth_df)
    /\ e_detected' = detected(e_detailed_results)
    /\ e_scores' = scores(e_actual_errors', e_detected')
    /\ e_pc' = "done"
    /\ UNCHANGED <<e_detailed_results, ground_truth_df>>
    /\ UNCHANGED notEvaluate

\* ------------------------------------------------------- specifications

vars == <<dvars, cvars, fvars, avars, kvars, tvars, evars>>

\* The detector script: analyze_csv, then save_results.
Init ==
    /\ InitDetect /\ IdleCorrect /\ IdleFacility
    /\ IdleAssemble /\ IdleChecks /\ IdleTransport /\ IdleEvaluate

Next ==
    \/ ReadCsv \/ ReadCsvFails \/ Sleep \/ Request
    \/ ReplyParsed \/ ReplyParseFailed \/ ReplyTransportFailed
    \/ Merge \/ SaveResults \/ SkipSave

Spec == Init /\ [][Next]_vars

\* The correction script: correct_errors and its worker tasks.
NextCorrect ==
    \/ StartCorrection \/ TaskStarts
    \/ TaskParsed \/ TaskParseFailed \/ TaskTransportFailed
    \/ MapReturns \/ MapRaises \/ WriteBack \/ SaveCsv \/ SaveJson

SpecCorrect == InitCorrect /\ [][NextCorrect]_vars

\* get_facility_examples on any table and identifier.
NextFacility == CallGetFacilityExamples

SpecFacility == InitFacility /\ [][NextFacility]_vars

\* One call of detect_errors_in_row, line by line.
NextAssemble ==
    \/ Post \/ PostRaises \/ ReadLine \/ ReadLineRaises \/ IterRaises \/ EndOfStream

SpecAssemble == InitAssemble /\ [][NextAssemble]_vars

\* The length and date checks of analyze_csv on one row.
NextChecks == RunChecks

SpecChecks == InitChecks /\ [][NextChecks]_vars

\* One POST through the session's retry policy.
NextTransport == AttemptAnswered \/ AttemptConnectionFails \/ AttemptTimesOut

SpecTransport == InitTransport /\ [][NextTransport]_vars

\* The detector script followed by the correction script on its output.
NextPipeline ==
    \/ ReadCsv \/ ReadCsvFails \/ Sleep \/ Request
    \/ ReplyParsed \/ ReplyParseFailed \/ ReplyTransportFailed
    \/ Merge \/ SaveResults \/ SkipSave
    \/ LoadDetection
    \/ StartCorrection \/ TaskStarts
    \/ TaskParsed \/ TaskParseFailed \/ TaskTransportFailed
    \/ MapReturns \/ MapRaises \/ WriteBack \/ SaveCsv \/ SaveJson

SpecPipeline == InitPipeline /\ [][NextPipeline]_vars

\* One call of evaluate_detection.
NextEvaluate == evaluate_detection

SpecEvaluate == InitEvaluate /\ [][NextEvaluate]_vars

\* ================================================================ claims
\* -------------------------------------------------- detection (Spec)

\* What the model said about row k (1-based), and what the checks found.
ModelErrors(k) == detect_errors_in_row(k, replies[k]).errors
Deterministic(k) == additional_errors(df[k])
IsEmptyList(errs) == errs.kind = "list" /\ errs.items = <<>>

\* C1 (as claimed): every DetectionResult appended by analyze_csv has an
\* empty errors list if and only if its error_detection is "no error".
C1_PostMergeInvariant ==
    \A k \in 1..Len(results) :
        IsEmptyList(results[k].errors) <=> results[k].error_detection = "no error"

\* C2: the final errors list of every merged result is the model's errors
\* list followed by the deterministic findings of that row, nothing removed:
\* final count = model count + deterministic count.
C2_MergeKeepsBoth ==
    \A k \in 1..Len(results) :
        /\ results[k].errors.kind = ModelErrors(k).kind
        /\ results[k].errors.items = ModelErrors(k).items \o Deterministic(k)
        /\ Len(results[k].errors.items)
              = Len(ModelErrors(k).items) + Len(Deterministic(k))

\* C2 witness: a merged row to which both sources contributed entries.
C2_Witness ==
    \E k \in 1..Len(results) :
        /\ Len(ModelErrors(k).items) >= 2
        /\ Len(Deterministic(k)) >= 2
        /\ Len(results[k].errors.items) >= 4

\* C3 (as claimed): whenever the union of the model's errors and the
\* deterministic errors of a row is non-empty, the merged verdict is "error".
C3_UnionForcesError ==
    \A k \in 1..Len(results) :
        (ModelErrors(k).items \o Deterministic(k)) # <<>>
            => results[k].error_detection = "error"

IsErrorEntry(e) ==
    /\ e.field \notin {Absent, null}
    /\ e.error_type \notin {Absent, null}
    /\ e.description \notin {Absent, null}

WellFormed(r, n) ==
    /\ r.row_number = n
    /\ r.error_detection \in {"no error", "error"}
    /\ r.errors.kind = "list"
    /\ \A i \in 1..Len(r.errors.items) : IsErrorEntry(r.errors.items[i])
    /\ r.reasoning \notin {Absent, null}

\* C4 (as claimed): whatever the tier of the reply, detect_errors_in_row
\* returns a well-formed DetectionResult for the caller's row number.
C4_AlwaysWellFormed ==
    pc = "merge" => WellFormed(phi2_result, index + 1)

\* C5 (as claimed): analyze_csv returns one DetectionResult per row read,
\* and returns no results only when the input file cannot be read.
C5_NeverAbortsMidDataset ==
    /\ returned = "None" => ~readable
    /\ returned = "results" => Len(results) = Len(df)

HasEntryFor(r, f) ==
    \E i \in 1..Len(r.errors.items) : r.errors.items[i].field = f

\* C7 (as claimed): for the one-row dataset whose ZIP Code is "123456789X"
\* the run ends with a saved document whose only result has an entry for
\* "ZIP Code", rows_with_errors = 1 and error_rate = 100.0.
C7_ZipEndToEnd ==
    (df = <<RowZipX>> /\ pc = "saved") =>
        /\ HasEntryFor(output.detailed_results[1], "ZIP Code")
        /\ output.summary.rows_with_errors = 1
        /\ output.summary.error_rate.num = 100 * output.summary.error_rate.den

\* ------------------------------------------- correction (SpecCorrect)

\* C6 (as claimed): process_single_row returns for every selected detection
\* result without raising, and correct_errors never ends by an exception.
C6_CorrectionNeverAborts ==
    /\ \A i \in DOMAIN task : task[i].st # "raised"
    /\ c_pc # "crashed"

\* The parsed correction reply for row n names field f in corrected_fields.
Named(n, f) ==
    \E i \in DOMAIN c_replies :
        /\ row_data[i].row_number = n
        /\ c_replies[i].tier = "Parsed"
        /\ \E j \in 1..Len(c_replies[i].corrected_fields.items) :
              c_replies[i].corrected_fields.items[j][1] = f

FrameOf(table) ==
    /\ Len(table) = Len(df)
    /\ \A n \in 1..Len(df) :
          /\ DOMAIN table[n] = Columns
          /\ \A f \in Columns : ~Named(n, f) => table[n][f] = df[n][f]

\* C9: in the corrected table, in memory and as written, every cell whose
\* field the parsed reply for its row did not name is identical to the input
\* cell: flagged fields that were not returned, rows not sent to correction,
\* rows whose reply did not parse or whose request failed.
C9_FrameOfCorrection ==
    /\ c_pc \notin {"idle", "start"} => FrameOf(corrected_df)
    /\ csv_file # NoFile => FrameOf(csv_file)

\* C9 witness: the CSV is written; one row had "ZIP Code" flagged, the reply
\* returned the phone but not the ZIP, and the phone cell changed while the
\* ZIP cell did not; another row's reply did not parse and the row is intact.
C9_Witness ==
    /\ csv_file # NoFile
    /\ \E n \in 1..Len(df) :
          /\ HasEntryFor(detailed_results[n], "ZIP Code")
          /\ ~Named(n, "ZIP Code") /\ Named(n, "Telephone Number")
          /\ csv_file[n]["Telephone Number"] # df[n]["Telephone Number"]
          /\ csv_file[n]["ZIP Code"] = df[n]["ZIP Code"]
    /\ \E i \in DOMAIN c_replies :
          /\ c_replies[i].tier = "ParseFailed"
          /\ csv_file[row_data[i].row_number] = df[row_data[i].row_number]

IsPhonePattern(s) ==
    /\ Len(s) = 14
    /\ s[1] = "(" /\ s[5] = ")" /\ s[6] = " " /\ s[10] = "-"
    /\ \A i \in {2, 3, 4, 7, 8, 9, 11, 12, 13, 14} : s[i] \in Digits

IsMDY(s) ==
    /\ Len(s) = 10 /\ s[3] = "/" /\ s[6] = "/"
    /\ \A i \in {1, 2, 4, 5, 7, 8, 9, 10} : s[i] \in Digits
    /\ to_datetime(s).ok /\ NumVal(SubSeq(s, 1, 2)) = to_datetime(s).m

SameDate(a, b) == to_datetime(a).ok /\ to_datetime(a) = to_datetime(b)

\* The corrections written to the corrected table so far, as
\* <<row_number, field, value>>.
AppliedBy(i) ==
    {<<task[i].ret.row_number, task[i].ret.row_corrections.items[j][1],
       task[i].ret.row_corrections.items[j][2]>> :
        j \in 1..Len(task[i].ret.row_corrections.items)}
Applied == UNION {AppliedBy(i) : i \in {t \in DOMAIN task : t < wb}}

\* C10 (as claimed): every correction applied to a Telephone Number cell has
\* the digit sequence of the original value in the pattern (XXX) XXX-XXXX,
\* and every correction applied to a Start Date or End Date cell denotes the
\* original's calendar date in MM/DD/YYYY, whatever the model replied.
C10_DataPreservingReformat ==
    \A a \in Applied :
        /\ a[2] = "Telephone Number" =>
              /\ DigitsOf(a[3]) = DigitsOf(Str(df[a[1]][a[2]]))
              /\ IsPhonePattern(a[3])
        /\ a[2] \in {"Start Date", "End Date"} =>
              /\ SameDate(a[3], df[a[1]][a[2]])
              /\ IsMDY(a[3])

\* ------------------------------------------ the resolver (SpecFacility)

\* Positions of the rows of df that carry the identifier of the call.
Candidates ==
    {i \in 1..Len(df) : ~isna(f_facility_id) /\ df[i]["Facility ID"] = f_facility_id}

\* Number of empty cells among the 7 facility-descriptive fields of row i.
Blanks(i) ==
    Cardinality({j \in 1..Len(FacilityColumns) :
                    isna(df[i][FacilityColumns[j]]) \/ df[i][FacilityColumns[j]] = <<>>})

\* C8 (as claimed): the resolver returns the combination with the fewest
\* empty fields among the candidates, remaining ties by first occurrence.
C8_FewestBlanksThenFirst ==
    (f_pc = "returned" /\ Candidates # {}) =>
        \E i \in Candidates :
            /\ \A j \in Candidates :
                  Blanks(i) < Blanks(j) \/ (Blanks(i) = Blanks(j) /\ i <= j)
            /\ f_examples = FacilityInfo(df[i])

\* C8 (amended): the resolver returns the 7 descriptive fields of the first
\* row in file order that carries the identifier, however many of them are
\* empty, and None when no row carries it.
C8_FirstInFileOrder ==
    f_pc = "returned" =>
        IF Candidates = {} THEN f_examples = None
        ELSE \E i \in Candidates :
                /\ \A j \in Candidates : i <= j
                /\ f_examples = FacilityInfo(df[i])

\* C8 witness: three "ABC123" rows, the blank-phone one first and two
\* identical complete ones after it; the call returned the blank phone.
C8_Witness ==
    /\ f_pc = "returned"
    /\ df = <<RowBlankPhone, RowClean, RowClean>>
    /\ f_facility_id = Chars_ABC123
    /\ ~f_examples.is_none /\ isna(f_examples.phone)

\* ------------------------------------- the streamed reply (SpecAssemble)

\* The response fragments of the first n lines, in arrival order.
RECURSIVE Concatenation(_, _)
Concatenation(lines, n) ==
    IF n = 0 THEN <<>>
    ELSE Concatenation(lines, n - 1)
         \o (IF lines[n].kind = "chunk" THEN lines[n].response ELSE <<>>)

\* The raw accumulated text of the whole stream.
Accumulated == Concatenation(stream, Len(stream))

\* The call read the stream to its end without an exception.
ReadThrough == a_pc = "done" /\ a_reply.tier # "TransportFailed"

ParseErrorEntry == ErrorEntry("general", "parse_error", "Failed to parse model response")

\* The text with one "}" appended unless its last character is "}".
ClosedIfOpen(text) == IF EndsWithBrace(text) THEN text ELSE Append(text, Punct("}"))
\* The same, with trailing whitespace ignored by the test.
ClosedIfOpenStripped(text) ==
    IF EndsWithBrace(Strip(text)) THEN text ELSE Append(text, Punct("}"))

\* C11 as stated: when the accumulated reply is not valid JSON even after
\* brace repair, the call returns "error" with the single parse_error entry
\* and a reasoning equal to the raw accumulated text.
C11_ReasoningIsRawText ==
    (ReadThrough /\ ~json_loads(ClosedIfOpenStripped(Accumulated)).ok)
        => a_result = DetectionResult(a_row_number, "error",
                                      ListOf(<<ParseErrorEntry>>), Accumulated)

\* C11 amended: the same verdict and entry; the reasoning is the repaired
\* text (the accumulated text with the "}" the repair appended) with leading
\* and trailing whitespace removed.
C11_ReasoningIsRepairedText ==
    (ReadThrough /\ ~json_loads(ClosedIfOpenStripped(Accumulated)).ok)
        => a_result = DetectionResult(a_row_number, "error",
                                      ListOf(<<ParseErrorEntry>>),
                                      Strip(ClosedIfOpenStripped(Accumulated)))

\* A prose reply: the reasoning returned is "Sure }", the text sent "Sure ".
C11_Witness ==
    /\ a_pc = "done" /\ a_reply.tier = "ParseFailed"
    /\ Accumulated = << Word("Sure"), Space >>
    /\ a_result.reasoning = << Word("Sure"), Space, Punct("}") >>

\* The request or the reading of the stream raised, with message a_reply.text.
Raised == a_pc = "done" /\ a_reply.tier = "TransportFailed"

ProcessingErrorEntry(msg) == ErrorEntry("general", "processing_error", msg)

\* C12 as stated: when the request or the reading of the stream raises, the
\* call returns "error" with exactly one processing_error entry, and both
\* the entry's description and the reasoning are the failure message.
C12_ReasoningIsMessage ==
    Raised => a_result = DetectionResult(a_row_number, "error",
                            ListOf(<< ProcessingErrorEntry(a_reply.text) >>),
                            a_reply.text)

\* C12 amended: the entry's description is the failure message; the
\* reasoning is the message behind the prefix "Error processing row: ".
C12_ReasoningIsPrefixedMessage ==
    /\ Raised => a_result = DetectionResult(a_row_number, "error",
                            ListOf(<< ProcessingErrorEntry(a_reply.text) >>),
                            "Error processing row: " \o a_reply.text)
    /\ (a_pc = "done" /\ a_pos < Len(stream)) => Raised

\* The connection broke after the first line was read.
C12_Witness ==
    /\ Raised /\ a_pos = 1 /\ a_reply.text = "Connection broken"
    /\ a_result.reasoning = "Error processing row: Connection broken"

\* C13 as stated: the fragments of the JSON chunks are concatenated in
\* arrival order, one "}" is appended iff the accumulated text does not end
\* with "}", and the result is parsed; the reply of section 8 without its
\* closing brace is Parsed, with row_number 5, "no error", [] and "ok".
C13_AppendIffNoFinalBrace ==
    /\ a_pc \in {"iter", "done"} => full_response = Concatenation(stream, a_pos)
    /\ ReadThrough =>
          /\ a_reply.tier = "Parsed" <=> json_loads(ClosedIfOpen(Accumulated)).ok
          /\ a_reply.tier = "ParseFailed" <=> ~json_loads(ClosedIfOpen(Accumulated)).ok
    /\ (ReadThrough /\ Accumulated = Frag_Head \o Frag_Tail) =>
          /\ ValueOf(json_loads(ClosedIfOpen(Accumulated)).val, "row_number") = JNum("5")
          /\ a_result = DetectionResult(a_row_number, "no error", ListOf(<<>>), "ok")

\* C13 amended: as stated, except that the test for the final "}" ignores
\* trailing whitespace (the "}" is appended to the text as it is).
C13_AppendIffNoFinalBraceStripped ==
    /\ a_pc \in {"iter", "done"} => full_response = Concatenation(stream, a_pos)
    /\ ReadThrough =>
          /\ a_reply.tier = "Parsed" <=> json_loads(ClosedIfOpenStripped(Accumulated)).ok
          /\ a_reply.tier = "ParseFailed" <=> ~json_loads(ClosedIfOpenStripped(Accumulated)).ok
    /\ (ReadThrough /\ Accumulated = Frag_Head \o Frag_Tail) =>
          /\ ValueOf(json_loads(ClosedIfOpenStripped(Accumulated)).val, "row_number")
                = JNum("5")
          /\ a_result = DetectionResult(a_row_number, "no error", ListOf(<<>>), "ok")

\* The truncated reply arrived in two fragments with a non-JSON line between.
C13_Witness ==
    /\ ReadThrough /\ a_reply.tier = "Parsed"
    /\ Len(stream) = 3 /\ stream[2].kind = "text"
    /\ Accumulated = Frag_Head \o Frag_Tail
    /\ ~EndsWithBrace(full_response)

\* ------------------------------------- the resolver's None (SpecFacility)

\* The rows whose Facility ID cell holds the target (an empty cell holds an
\* empty target), and whether the call is the one process_single_row makes:
\* the target is the Facility ID cell of a row of the same table.
RowsWithId == {i \in 1..Len(df) : df[i]["Facility ID"] = f_facility_id}
CalledForRowOfTable == RowsWithId # {}

\* C14 as stated: None iff zero rows have the target Facility ID, otherwise
\* the 7 fields of one matching row; called for a row of the same table, a
\* reference is returned.
C14_NoneIffNoRowHasId ==
    f_pc = "returned" =>
        /\ f_examples = None <=> RowsWithId = {}
        /\ f_examples # None => \E i \in RowsWithId : f_examples = FacilityInfo(df[i])
        /\ CalledForRowOfTable => f_examples # None

\* C14 amended: None iff no row's Facility ID compares equal to the target,
\* which an empty (NaN) target never does; otherwise the 7 fields of one
\* matching row.  Called for a row of the same table, a reference is
\* returned iff that row's Facility ID is not empty.
C14_NoneIffNoRowEqualsId ==
    f_pc = "returned" =>
        /\ f_examples = None <=> Candidates = {}
        /\ f_examples # None => \E i \in Candidates : f_examples = FacilityInfo(df[i])
        /\ CalledForRowOfTable => (f_examples # None <=> ~isna(f_facility_id))

\* Called with the empty Facility ID of a row of the table: None.
C14_Witness ==
    /\ f_pc = "returned" /\ isna(f_facility_id)
    /\ \E i \in 1..Len(df) : isna(df[i]["Facility ID"])
    /\ f_examples = None

\* ------------------------------------------ the audit log (SpecCorrect)

\* The tasks whose return value the write-back loop has handled.
WrittenBack == {i \in DOMAIN task : i < wb}

\* The records the log holds for the row of task i, in log order.
RecordsOf(i) ==
    SelectSeq(corrections_log, LAMBDA rec : rec.row_number = row_data[i].row_number)

\* The keys of corrected_fields in the reply task i received, with their
\* proposed values (an absent corrected_fields has none).
ProposedBy(i) == c_replies[i].corrected_fields.items

\* The type of the first entry detection reported for the field.
DetectedType(n, field) ==
    LET hits == SelectSeq(detailed_results[n].errors.items, LAMBDA e : e.field = field)
    IN  IF hits = <<>> THEN "unknown" ELSE hits[1].error_type

\* One record per proposed field, each matched by the cell written, and no
\* other cell of the row changed.
LoggedAndWritten(i) ==
    LET n == row_data[i].row_number
    IN  /\ Len(RecordsOf(i)) = Len(ProposedBy(i))
        /\ \A j \in 1..Len(ProposedBy(i)) :
              LET rec == RecordsOf(i)[j]
              IN  /\ rec.field = ProposedBy(i)[j][1]
                  /\ rec.original_value = Str(df[n][rec.field])
                  /\ rec.corrected_value = ProposedBy(i)[j][2]
                  /\ rec.error_type = DetectedType(n, rec.field)
                  /\ corrected_df[n][rec.field] = rec.corrected_value
        /\ \A c \in Columns :
              corrected_df[n][c] # df[n][c] =>
                  \E j \in 1..Len(RecordsOf(i)) : RecordsOf(i)[j].field = c

NothingLoggedOrWritten(i) ==
    /\ RecordsOf(i) = <<>>
    /\ corrected_df[row_data[i].row_number] = df[row_data[i].row_number]

\* The write-back loop went through every task once the files are written.
RunContinues == c_pc \in {"save_csv", "save_json", "done"} => wb = Len(task) + 1

Handled(i) ==
    /\ c_replies[i].tier = "Parsed"
    /\ c_replies[i].corrected_fields.kind # "other"
    /\ ProposedBy(i) # <<>> => c_replies[i].correction_details.kind # "other"
    /\ \A j \in 1..Len(ProposedBy(i)) : ProposedBy(i)[j][1] \in Columns

Added(field, error_type) ==
    SelectSeq(k_errors, LAMBDA e : e.field = field /\ e.error_type = error_type)

LengthChecked == {field_lengths[i][1] : i \in 1..Len(field_lengths)}

\* C16: for each of the 13 fields with a maximum length and every value of
\* the row, there is one length_violation entry for the field iff the
\* length of the stringified value exceeds the maximum.
C16_LengthViolationIffTooLong ==
    k_pc = "checked" =>
        \A i \in 1..Len(field_lengths) :
            LET field == field_lengths[i][1]
                max_length == field_lengths[i][2]
            IN  Len(Added(field, "length_violation"))
                    = (IF Len(Str(k_row[field])) > max_length THEN 1 ELSE 0)

\* A present value of a date field.
Present(field) == ~isna(k_row[field])

\* C17: for each present value of a date field, invalid_date_format is
\* reported iff the value cannot be parsed as a calendar date, invalid_date
\* iff it parses with a year before 1900 or after the current year + 1, and
\* nothing otherwise.
C17_DateRange ==
    k_pc = "checked" =>
        \A field \in {"Start Date", "End Date"} :
            Present(field) =>
                LET date == parse_date(k_row[field])
                    out_of_range == date.y < 1900 \/ date.y > CurrentYear + 1
                IN  /\ Len(Added(field, "invalid_date_format")) = (IF ~date.ok THEN 1 ELSE 0)
                    /\ Len(Added(field, "invalid_date"))
                          = (IF date.ok /\ out_of_range THEN 1 ELSE 0)

\* ------------------------------------- the per-row state machine (Spec)

RowStates ==
    {"Pending", "Requested", "Parsed", "ParseFailed", "TransportFailed", "Merged", "Final"}

\* The script has ended: nothing more will be requested, merged or written.
Ended == pc \in {"saved", "crashed", "exit"}

\* Exactly one request for every row that left Pending, none before.
OneRequestPerRow ==
    \A k \in 1..Len(df) :
        /\ row_state[k] \in RowStates
        /\ requests[k] = (IF row_state[k] = "Pending" THEN 0 ELSE 1)

\* C18: every row goes Pending, Requested, one of the three tiers, Merged,
\* Final; one detection request is made per row and none is repeated; every
\* row that was read reaches Final (it is Final when the script has ended).
C18_EveryRowReachesFinal ==
    /\ OneRequestPerRow
    /\ Ended => \A k \in 1..Len(df) : row_state[k] = "Final"

\* ------------------------------------ the write-back barrier (SpecCorrect)

\* The pool has min(4, cpu_count) workers, and no more tasks run than that.
PoolSize ==
    /\ num_processes \in {Min(4, n) : n \in CpuCounts}
    /\ Cardinality(Running) <= num_processes

\* The tuples handed to the pool are in the order of detailed_results.
InResultOrder ==
    \A i, j \in DOMAIN row_data :
        i < j => row_data[i].row_number < row_data[j].row_number

\* A step that changes the corrected table after it was copied: taken by the
\* write-back loop, after every task has returned, for the next return
\* value in order, and changing that row only.
OneRowByOrchestrator ==
    /\ c_pc = "writeback"
    /\ \A i \in DOMAIN task : task[i].st = "returned"
    /\ wb' = wb + 1
    /\ \A n \in 1..Len(corrected_df) :
          n # row_data[wb].row_number => corrected_df'[n] = corrected_df[n]

\* C19: no step changes the input table; the corrected table is changed
\* only by the orchestrator, after all worker tasks have returned, one row
\* at a time in the order of detailed_results; the pool has min(4, cpu_count)
\* workers.
C19_WriteBackBarrier ==
    /\ [](PoolSize /\ InResultOrder)
    /\ [][/\ df' = df
          /\ (corrected_df' # corrected_df /\ c_pc # "start") => OneRowByOrchestrator
          /\ wb' # wb => (c_pc = "map" /\ wb' = 1) \/ (c_pc = "writeback" /\ wb' = wb + 1)
         ]_vars

\* Two rows went through a pool of four workers; the first row's
\* corrections are written, the second row's are next.
C19_Witness ==
    /\ c_pc = "writeback" /\ wb = 2 /\ Len(task) = 2
    /\ num_processes = 4
    /\ corrected_df[row_data[1].row_number] # df[row_data[1].row_number]
    /\ corrected_df[row_data[2].row_number] = df[row_data[2].row_number]
    /\ ~task[2].ret.row_corrections.is_none /\ task[2].ret.row_corrections.items # <<>>

\* -------------------------------------- the retry policy (SpecTransport)

\* The attempts of the POST that were followed by another attempt.
RetriedAttempts == {i \in 1..Len(t_events) : i < Len(t_events)}

ClientError(event) == event.kind = "response" /\ event.status \in 400..499

\* C20: at most 4 attempts per POST (the first and up to 3 retries); an
\* attempt is retried only when its response status is 500, 502, 503 or 504;
\* a 4xx status or a timeout is never retried: it ends the POST and is left
\* to the caller.
C20_RetryOnlyOnServerError ==
    /\ Len(t_events) <= RetryTotal + 1
    /\ \A i \in RetriedAttempts :
          /\ t_events[i].kind = "response"
          /\ t_events[i].status \in {500, 502, 503, 504}
    /\ \A i \in 1..Len(t_events) :
          (ClientError(t_events[i]) \/ t_events[i].kind = "read_timeout")
              => (i = Len(t_events) /\ t_pc \in {"returned", "raised"})

\* --------------------------- sequencing and numbering (SpecPipeline)

\* The k-th result is the result of row k, whatever the reply said.
NumberedByPosition == \A k \in 1..Len(results) : results[k].row_number = k

\* Every tuple handed to the pool carries the row at 0-based index
\* row_number - 1 (position row_number of the table) and that row's result.
ReadsRowByNumber ==
    \A i \in DOMAIN row_data :
        /\ row_data[i].row_number \in 1..Len(df)
        /\ row_data[i].row = df[row_data[i].row_number]
        /\ row_data[i].result = detailed_results[row_data[i].row_number]
        /\ row_data[i].result.row_number = row_data[i].row_number

\* A request is issued for the next row in file order, once the results of
\* all rows before it are appended.
RequestInOrder ==
    requests' # requests =>
        /\ pc = "request" /\ index + 1 \in 1..Len(df)
        /\ Len(results) = index
        /\ \A k \in 1..index : row_state[k] = "Final"
        /\ requests' = [requests EXCEPT ![index + 1] = 1]

\* The loop reaches a request through the delay, except for the first row.
DelayBeforeRequest ==
    (pc' = "request" /\ pc # "request") =>
        IF index' = 0 THEN pc = "start" ELSE pc = "sleep"

\* A write of the write-back loop changes the row of the return value it
\* handles, at 0-based index row_number - 1, and no other.
WritesRowByNumber ==
    (c_pc = "writeback" /\ corrected_df' # corrected_df) =>
        /\ task[wb].ret.row_number = row_data[wb].row_number
        /\ \A n \in 1..Len(corrected_df) :
              n # task[wb].ret.row_number => corrected_df'[n] = corrected_df[n]

\* C21: rows are processed one at a time in file order, with a delay step
\* before every request but the first; the k-th result has row_number k
\* whatever row_number the reply contains; correct_errors reads and writes
\* exactly the row at 0-based index row_number - 1.
C21_SequencedAndNumbered ==
    /\ [](NumberedByPosition /\ ReadsRowByNumber)
    /\ [][RequestInOrder /\ DelayBeforeRequest /\ WritesRowByNumber]_vars

\* The reply for row 2 said row_number 99; the result is numbered 2, and
\* correction changed row 2 of the table and left row 1 alone.
C21_Witness ==
    /\ c_pc = "done" /\ Len(results) = 2
    /\ "row_number" \in DOMAIN replies[2] /\ replies[2].row_number = 99
    /\ results[2].row_number = 2
    /\ \E i \in DOMAIN row_data : row_data[i].row_number = 2
    /\ corrected_df[2] # df[2] /\ corrected_df[1] = df[1]

\* ---------------------------------- per-row atomicity (SpecCorrect)

\* The reply of task i parsed, and handling one of its proposed fields
\* raised: a key that is no column, or details that are no object.
HandlingFailed(i) == c_replies[i].tier = "Parsed" /\ ~Handled(i)

\* The columns of the corrected table, in memory and on disk, are those of
\* the input table.
SameColumns ==
    /\ c_pc \notin {"idle", "start"} =>
          /\ Len(corrected_df) = Len(df)
          /\ \A n \in 1..Len(df) : DOMAIN corrected_df[n] = DOMAIN df[n]
    /\ csv_file # NoFile =>
          /\ Len(csv_file) = Len(df)
          /\ \A n \in 1..Len(df) : DOMAIN csv_file[n] = DOMAIN df[n]

\* C22: when handling a proposed field fails, no correction of the row is
\* applied and no record of the row is logged, the fields handled before
\* the failure included; the corrected table always has exactly the
\* columns of the input table.
C22_AllOrNothingPerRow ==
    /\ \A i \in WrittenBack : HandlingFailed(i) => NothingLoggedOrWritten(i)
    /\ SameColumns

\* The reply proposed a new Start Date and then a field "Phone" that is no
\* column: the date was not written and nothing was logged.
C22_Witness ==
    /\ c_pc = "done" /\ 1 \in WrittenBack
    /\ ProposedBy(1) = <<CF_Date, CF_Bogus>>
    /\ df[row_data[1].row_number]["Start Date"] # CF_Date[2]
    /\ corrected_df[row_data[1].row_number] = df[row_data[1].row_number]
    /\ corrections_log = <<>>
    /\ csv_file = df

\* ------------------------------ the evaluator's labels (SpecEvaluate)

\* The verdict of the k-th detection result.
VerdictOf(k) == e_detailed_results[k].error_detection

\* C23: evaluate_detection gives a detection result the predicted label 1
\* if and only if its error_detection is "error", and the label 0 when its
\* error_detection is "no error".
C23_LabelOneIffError ==
    e_pc = "done" =>
        \A k \in 1..Len(e_detailed_results) :
            /\ e_detected[k] = 1 <=> VerdictOf(k) = Text_error
            /\ VerdictOf(k) = Text_no_error => e_detected[k] = 0

\* What the code does hold: the label is 1 exactly when the lower-cased
\* text of error_detection contains "error", which "no error" does.
C23_LabelOneIffContainsError ==
    e_pc = "done" =>
        /\ Len(e_detected) = Len(e_detailed_results)
        /\ \A k \in 1..Len(e_detailed_results) :
              /\ e_detected[k] = 1 <=> VerdictOf(k) \in {Text_error, Text_no_error, <<"E", "r", "r", "o", "r">>}
              /\ e_detected[k] = 0 <=> VerdictOf(k) \in {Text_unknown, null}

\* A result saying "no error" was labelled 1.
C23_NoErrorLabelledOne ==
    /\ e_pc = "done"
    /\ \E k \in 1..Len(e_detailed_results) :
          VerdictOf(k) = Text_no_error /\ e_detected[k] = 1

====
